---- MODULE Spec2Model ----
(***************************************************************************)
(* A model of the manifest decoder of egdata-manifests-parser.             *)
(*                                                                         *)
(* The decoder (process_manifest_data, src/src/lib.rs) is a pipeline over  *)
(* one input buffer: sniff the JSON variant, read the header, frame the    *)
(* payload, reject encrypted input, decompress, compare the SHA-1, then    *)
(* decode the metadata, the chunk directory and the file directory.  Each  *)
(* stage is an operator computed on bytes as the code computes it; the     *)
(* state machine applies one stage per step and `pc` is the position of    *)
(* the decode in process_manifest_data.                                    *)
(*                                                                         *)
(* Bytes are naturals 0..255.  Strings produced by hex::encode and by      *)
(* Uuid::to_string are sequences of nibbles 0..15 (two per byte); strings  *)
(* read by from_utf8_lossy are sequences of code points.  An Option is a   *)
(* sequence of length 0 (None) or 1 (Some).                                *)
(***************************************************************************)
EXTENDS Integers, Sequences, FiniteSets, TLC

VARIABLES buf, json, build, pc, rdpos, header, slice, payload, warned,
          cur, meta, chunk_list, file_list, result,
          rd, last

vars == <<buf, json, build, pc, rdpos, header, slice, payload, warned,
          cur, meta, chunk_list, file_list, result, rd, last>>

\* ------------------------------------------------------------ arithmetic

Min(a, b) == IF a <= b THEN a ELSE b

\* i32::MAX
I32MAX == 2147483647

None == <<>>

Some(x) == <<x>>

IsSome(o) == Len(o) = 1

\* the sum of a sequence of numbers, by halves
RECURSIVE SumSeq(_)
SumSeq(s) ==
    IF Len(s) = 0 THEN 0
    ELSE IF Len(s) = 1 THEN s[1]
    ELSE SumSeq(SubSeq(s, 1, Len(s) \div 2))
         + SumSeq(SubSeq(s, (Len(s) \div 2) + 1, Len(s)))

Repeat(x, n) == [i \in 1..n |-> x]

RECURSIVE Flatten(_)
Flatten(ss) == IF ss = <<>> THEN <<>> ELSE Head(ss) \o Flatten(Tail(ss))

Reverse(s) == [i \in 1..Len(s) |-> s[Len(s) + 1 - i]]

\* LittleEndian::read_u32; the model keeps u32 values below 2^31
\* values above i32::MAX are kept as i32::MAX: the limits the decoder compares
\* a u32 with (1 GiB, 1,000,000, 10,000, a section's length) are all below it
U32(b) ==
    IF b[4] >= 128 THEN I32MAX
    ELSE b[1] + 256 * b[2] + 65536 * b[3] + 16777216 * b[4]

\* LittleEndian::read_i32 (two's complement)
I32(b) ==
    IF b[4] < 128 THEN b[1] + 256 * b[2] + 65536 * b[3] + 16777216 * b[4]
    ELSE (b[1] + 256 * b[2] + 65536 * b[3] + 16777216 * (b[4] - 128))
         - I32MAX - 1

\* hex::encode: two nibbles per byte, high nibble first
Hex(b) == [i \in 1..(2 * Len(b)) |->
             IF i % 2 = 1 THEN b[(i + 1) \div 2] \div 16
                          ELSE b[i \div 2] % 16]

\* String::from_utf8_lossy on single-byte input: non-ASCII bytes are replaced
Utf8Lossy(b) == [i \in 1..Len(b) |-> IF b[i] < 128 THEN b[i] ELSE 65533]

\* ------------------------------------------------- usize (64-bit) values
\* A usize is four 16-bit limbs, least significant first.

Limb == 65536

\* the limbs of a number below 2^31
Limbs(n) == <<n % Limb, n \div Limb, 0, 0>>

\* `x as usize` for an i32 x: sign extension to 64 bits
AsUsize(x) ==
    IF x >= 0 THEN <<x % Limb, x \div Limb, 0, 0>>
    ELSE LET y == (x + I32MAX) + 1
         IN  <<y % Limb, (y \div Limb) + 32768, Limb - 1, Limb - 1>>

\* a + b on usize: the wrapped sum and whether the addition overflowed
UsizeAdd(a, b) ==
    LET s1 == a[1] + b[1]
        s2 == a[2] + b[2] + (s1 \div Limb)
        s3 == a[3] + b[3] + (s2 \div Limb)
        s4 == a[4] + b[4] + (s3 \div Limb)
    IN  [sum |-> <<s1 % Limb, s2 % Limb, s3 % Limb, s4 % Limb>>,
         overflow |-> s4 >= Limb]

UsizeLess(a, b) ==
    \/ a[4] < b[4]
    \/ a[4] = b[4] /\ a[3] < b[3]
    \/ a[4] = b[4] /\ a[3] = b[3] /\ a[2] < b[2]
    \/ a[4] = b[4] /\ a[3] = b[3] /\ a[2] = b[2] /\ a[1] < b[1]

\* a usize known to be below 2^31, as an integer
UsizeToInt(a) == a[1] + Limb * a[2]

\* ------------------------------------------------------------- readers
\* A reader is [kind, data, position, limit]: kind "cursor" is
\* std::io::Cursor over the whole of data, kind "limited" is LimitedReader.

Cursor(data, pos) ==
    [kind |-> "cursor", data |-> data, position |-> pos, limit |-> Len(data)]

LimitedNew(data, limit) ==
    [kind |-> "limited", data |-> data, position |-> 0,
     limit |-> Min(limit, Len(data))]

\* one call of Read::read with a buffer of n bytes: the bytes and the reader
LimitedRead(r, n) ==
    LET available == IF r.limit > r.position THEN r.limit - r.position ELSE 0
        to_read == Min(n, available)
        end_pos == r.position + to_read
    IN  IF available = 0 THEN [bytes |-> <<>>, r |-> r]
        ELSE IF end_pos <= Len(r.data)
             THEN [bytes |-> SubSeq(r.data, r.position + 1, end_pos),
                   r |-> [r EXCEPT !.position = end_pos]]
             ELSE [bytes |-> <<>>, r |-> r]

CursorRead(r, n) ==
    LET start == Min(r.position, Len(r.data))
        to_read == Min(n, Len(r.data) - start)
    IN  [bytes |-> SubSeq(r.data, start + 1, start + to_read),
         r |-> [r EXCEPT !.position = @ + to_read]]

RawRead(r, n) == IF r.kind = "limited" THEN LimitedRead(r, n) ELSE CursorRead(r, n)

\* Seek::seek(SeekFrom::Current(off)) with off >= 0
SeekCurrent(r, off) ==
    IF r.kind = "limited"
    THEN [r EXCEPT !.position = Min(r.position + off, r.limit)]
    ELSE [r EXCEPT !.position = r.position + off]

\* Seek::seek(SeekFrom::Start(off))
SeekStart(r, off) ==
    IF r.kind = "limited"
    THEN [r EXCEPT !.position = Min(off, r.limit)]
    ELSE [r EXCEPT !.position = off]

\* read_bytes_tolerant: read until count bytes are in or a read returns 0
RECURSIVE ReadLoop(_, _, _)
LoopStep(one, r, count, got) ==
    IF one.bytes = <<>> THEN [bytes |-> got, r |-> r]
    ELSE ReadLoop(one.r, count, got \o one.bytes)

ReadLoop(r, count, got) ==
    IF Len(got) >= count THEN [bytes |-> got, r |-> r]
    ELSE LoopStep(RawRead(r, count - Len(got)), r, count, got)

ReadBytesTolerant(r, count) ==
    IF count = 0 THEN [bytes |-> <<>>, r |-> r] ELSE ReadLoop(r, count, <<>>)

\* A read result: ok, the value, the reader afterwards, the error kind
Ok(v, r) == [ok |-> TRUE, v |-> <<v>>, r |-> r, err |-> ""]

Fail(e, r) == [ok |-> FALSE, v |-> <<>>, r |-> r, err |-> e]

Val(res) == res.v[1]

\* A SeekFrom is [whence, neg, mag]: Start, End or Current, with the sign
\* and the magnitude (as limbs) of its 64-bit offset.
\* whether a magnitude is below 2^30, and its value then
FitsBelow(mag) == mag[3] = 0 /\ mag[4] = 0 /\ mag[2] < 16384

LowValue(mag) == mag[1] + Limb * mag[2]

\* the magnitude of i64::MIN, whose negation overflows
I64MinMag == <<0, 0, 0, 32768>>

\* min(base + offset as usize, limit), for base and limit below 2^30
AddClamped(base, mag, limit) ==
    IF FitsBelow(mag) THEN Min(base + LowValue(mag), limit) ELSE limit

\* base.saturating_sub((-offset) as usize)
SubSaturating(base, mag) ==
    IF FitsBelow(mag) /\ LowValue(mag) <= base THEN base - LowValue(mag) ELSE 0

\* what a negative offset is subtracted from: self.limit or self.position
SeekBase(r, whence) == IF whence = "End" THEN r.limit ELSE r.position

\* the reader at position p, and p as the seek's result
Moved(r, p) == Ok(p, [r EXCEPT !.position = p])

\* Seek::seek of LimitedReader.  `-offset` overflows for i64::MIN: a panic
\* where overflow is checked (debug), i64::MIN again where it wraps (release)
LimitedSeek(r, pos, bld) ==
    IF pos.whence = "Start" THEN Moved(r, AddClamped(0, pos.mag, r.limit))
    ELSE IF ~pos.neg
    THEN Moved(r, AddClamped(SeekBase(r, pos.whence), pos.mag, r.limit))
    ELSE IF pos.mag = I64MinMag /\ bld = "debug" THEN Fail("Panic", r)
    ELSE Moved(r, Min(SubSaturating(SeekBase(r, pos.whence), pos.mag), r.limit))

\* the value of the bytes b of a fixed-width field of the kind named
Convert(b, kind) ==
    CASE kind = "u8" -> b[1]
      [] kind = "u32" -> U32(b)
      [] kind = "i32" -> I32(b)
      [] kind = "u64" -> Reverse(b)

\* the `?` after a read, then the conversion of the bytes read
MapOk(x, kind) == IF x.ok THEN Ok(Convert(Val(x), kind), x.r) ELSE x

\* Exact with the fault of returning what is available, filled up with
\* zeros, in place of the error
ExactPadded(got, width) ==
    Ok(got.bytes \o Repeat(0, width - Len(got.bytes)), got.r)

\* the bytes got for a fixed-width field: UnexpectedEof on a short count
Exact(got, width) ==
    IF Len(got.bytes) < width THEN Fail("Io", got.r) ELSE Ok(got.bytes, got.r)

\* a fixed-width read of `width` bytes
ReadFixed(r, width) == Exact(ReadBytesTolerant(r, width), width)

ReadU8(r) == MapOk(ReadFixed(r, 1), "u8")

ReadU32(r) == MapOk(ReadFixed(r, 4), "u32")

ReadI32(r) == MapOk(ReadFixed(r, 4), "i32")

\* u64(): the value is kept as its eight bytes, most significant first
ReadU64(r) == MapOk(ReadFixed(r, 8), "u64")

\* a tolerant read of `width` bytes, a short row padded with zeros
Padded(got, width) ==
    Ok(got.bytes \o Repeat(0, width - Len(got.bytes)), got.r)

ReadPadded(r, width) == Padded(ReadBytesTolerant(r, width), width)

\* Uuid::from_bytes(b).to_string(): the 32 hex digits (hyphens left out)
GuidString(b) == Hex(b)

\* the 16 bytes of a GUID read tolerantly: invalid when fewer came
GuidOf(got) ==
    IF Len(got.bytes) # 16 THEN Fail("Invalid", got.r)
    ELSE Ok(GuidString(got.bytes), got.r)

ReadGuid(r) == GuidOf(ReadBytesTolerant(r, 16))

MAX_REASONABLE_STRING_LENGTH == 1073741824

\* the bytes of an fstring of length len
StringOf(got, len) ==
    IF Len(got.bytes) < len THEN Fail("Io", got.r)
    ELSE Ok(Utf8Lossy(got.bytes), got.r)

\* fstring() after its length n has been read
StringBody(n) ==
    IF ~n.ok THEN n
    ELSE IF Val(n) = 0 THEN Ok(<<>>, n.r)
    ELSE IF Val(n) > MAX_REASONABLE_STRING_LENGTH THEN Fail("Io", n.r)
    ELSE StringOf(ReadBytesTolerant(n.r, Val(n)), Val(n))

\* fstring(): u32 length, then that many bytes
ReadFString(r) == StringBody(ReadU32(r))

RECURSIVE ReadColumn(_, _, _, _)
\* fstring_array() after its count n has been read
StringsBody(n) ==
    IF ~n.ok THEN n ELSE ReadColumn(n.r, Val(n), "fstring", <<>>)

\* fstring_array(): u32 count, then count fstrings, stopping at the first error
ReadFStringArray(r) == StringsBody(ReadU32(r))

\* one field of the kind named, read with the reader method of that name
ReadField(r, kind) ==
    CASE kind = "u8" -> ReadU8(r)
      [] kind = "u32" -> ReadU32(r)
      [] kind = "i32" -> ReadI32(r)
      [] kind = "u64" -> ReadU64(r)
      [] kind = "hash" -> ReadFixed(r, 20)
      [] kind = "sha" -> ReadPadded(r, 20)
      [] kind = "guid" -> ReadGuid(r)
      [] kind = "fstring" -> ReadFString(r)
      [] kind = "fstring_array" -> ReadFStringArray(r)

\* a loop `for _ in 0..n` reading one field per turn with `?`
ColumnStep(x, n, kind, acc) ==
    IF ~x.ok THEN x ELSE ReadColumn(x.r, n - 1, kind, Append(acc, Val(x)))

ReadColumn(r, n, kind, acc) ==
    IF n = 0 THEN Ok(acc, r) ELSE ColumnStep(ReadField(r, kind), n, kind, acc)

\* the loops of a directory one after the other, each of n turns
RECURSIVE ReadColumns(_, _, _, _)
ColumnsStep(c, n, kinds, acc) ==
    IF ~c.ok THEN c ELSE ReadColumns(c.r, n, Tail(kinds), Append(acc, Val(c)))

ReadColumns(r, n, kinds, acc) ==
    IF kinds = <<>> THEN Ok(acc, r)
    ELSE ColumnsStep(ReadColumn(r, n, Head(kinds), <<>>), n, kinds, acc)

\* the fields of a record one after the other, each read with `?`
RECURSIVE ReadFields(_, _, _)
FieldsStep(x, kinds, acc) ==
    IF ~x.ok THEN x ELSE ReadFields(x.r, Tail(kinds), Append(acc, Val(x)))

ReadFields(r, kinds, acc) ==
    IF kinds = <<>> THEN Ok(acc, r)
    ELSE FieldsStep(ReadField(r, Head(kinds)), kinds, acc)

\* ------------------------------------------------------------- header
\* types/flags.rs (STORED_COMPRESSED, STORED_ENCRYPTED): bit0 and bit1

STORED_COMPRESSED == 1

STORED_ENCRYPTED == 2

\* x & mask != 0 for a one-bit mask
HasFlag(x, mask) == (x \div mask) % 2 = 1

MANIFEST_MAGIC == 1153351692

LEGACY_HEADER_SIZE == 37

EmptyHeader ==
    [header_size |-> 0, data_size_uncompressed |-> 0, data_size_compressed |-> 0,
     sha1_hash |-> <<>>, stored_as |-> 0, version |-> 0]

\* the magic check of ManifestHeader::read
MagicOk(magic) == magic = MANIFEST_MAGIC

\* the version test with the fault of `>=` for `>`
HasVersionFieldFrom(header_size) == header_size >= LEGACY_HEADER_SIZE

\* whether ManifestHeader::read reads the trailing version field
HasVersionField(header_size) == header_size > LEGACY_HEADER_SIZE

\* header_size as u64, the target of the seek to the end of the header: a
\* negative header_size is a position beyond any buffer
HeaderEnd(header_size) == IF header_size >= 0 THEN header_size ELSE I32MAX

\* the fields of the header after the magic, in the order read
HeaderKinds == <<"i32", "i32", "i32", "hash", "u8">>

\* the seek to the end of the header: `current_pos < header_size as u64`
HeaderSeek(r, header_size) ==
    IF UsizeLess(AsUsize(r.position), AsUsize(header_size))
    THEN SeekStart(r, HeaderEnd(header_size))
    ELSE r

\* the header built from the fields f and the version read
HeaderOf(f, ver) ==
    IF ~ver.ok THEN ver
    ELSE Ok([header_size |-> f[1],
             data_size_uncompressed |-> f[2],
             data_size_compressed |-> f[3],
             sha1_hash |-> Hex(f[4]),
             stored_as |-> f[5],
             version |-> Val(ver)], HeaderSeek(ver.r, f[1]))

\* the version field: read when the header is longer than the legacy one
HeaderVersion(fs) ==
    IF ~fs.ok THEN fs
    ELSE HeaderOf(Val(fs), IF HasVersionField(Val(fs)[1])
                           THEN ReadI32(fs.r) ELSE Ok(0, fs.r))

\* the rest of ManifestHeader::read, after the magic
HeaderFields(r0) == HeaderVersion(ReadFields(r0, HeaderKinds, <<>>))

\* the magic check with the fault of reading the fields before it
HeaderMagicLate(magic) ==
    IF ~magic.ok THEN magic
    ELSE IF ~MagicOk(Val(magic)) THEN Fail("Invalid", HeaderFields(magic.r).r)
    ELSE HeaderFields(magic.r)

\* the magic check and what follows it
HeaderMagic(magic) ==
    IF ~magic.ok THEN magic
    ELSE IF ~MagicOk(Val(magic)) THEN Fail("Invalid", magic.r)
    ELSE HeaderFields(magic.r)

\* ManifestHeader::read
HeaderRead(data) == HeaderMagic(ReadU32(Cursor(data, 0)))

is_compressed(h) == HasFlag(h.stored_as, STORED_COMPRESSED)

\* is_encrypted with the fault of comparing the whole byte
is_encrypted_only(h) == h.stored_as = STORED_ENCRYPTED

is_encrypted(h) == HasFlag(h.stored_as, STORED_ENCRYPTED)

\* ------------------------------------------------------ payload framing
\* the size field the compression flag selects
PayloadSize(h) ==
    IF is_compressed(h) THEN h.data_size_compressed ELSE h.data_size_uncompressed

\* the bounds test with the fault of testing the start alone
OutOfBoundsStartOnly(start, end, len) == ~UsizeLess(start, len)

\* the bounds test of the framing block
OutOfBounds(start, end, len) == ~UsizeLess(start, len) \/ UsizeLess(len, end)

\* &buf[start..end]: a panic when start > end or end > len
SliceOf(data, start, end, len) ==
    IF UsizeLess(end, start) \/ UsizeLess(len, end)
    THEN [kind |-> "panic", slice |-> <<>>]
    ELSE [kind |-> "ok",
          slice |-> SubSeq(data, UsizeToInt(start) + 1, UsizeToInt(end))]

\* the bounds test, then the slice
FrameSlice(data, start, add, len, bld) ==
    IF add.overflow /\ bld = "debug" THEN [kind |-> "panic", slice |-> <<>>]
    ELSE IF OutOfBounds(start, add.sum, len) THEN [kind |-> "err", slice |-> <<>>]
    ELSE SliceOf(data, start, add.sum, len)

\* the block computing payload_compressed: kind is "ok" (with the slice),
\* "err" or "panic".  A debug build panics on an overflowing addition, a
\* release build wraps.
Frame(data, h, bld) ==
    FrameSlice(data, AsUsize(h.header_size),
               UsizeAdd(AsUsize(h.header_size), AsUsize(PayloadSize(h))),
               AsUsize(Len(data)), bld)

\* --------------------------------------------------------- decompression
\* miniz_oxide's decompress_to_vec_zlib is outside the repository.  Its model:
\* a stream is the two signature bytes, the stored body and one check byte;
\* any other stream is corrupt.

IsZlibSecond(b) == b = 1 \/ b = 156 \/ b = 218

CheckByte(body) == SumSeq(body) % 128

Inflate(stream) ==
    LET n == Len(stream)
        body == SubSeq(stream, 3, n - 1)
    IN  IF n >= 3 /\ stream[1] = 120 /\ IsZlibSecond(stream[2])
           /\ stream[n] = CheckByte(body)
        THEN [ok |-> TRUE, data |-> body]
        ELSE [ok |-> FALSE, data |-> <<>>]

\* the scan `while offset < payload_compressed.len() - 2`: the offset it stops
\* at, or a panic on an index outside the slice.  `wrapped` says len - 2
\* wrapped around (a release build with len < 2): the scan then runs off the
\* end of the slice whatever its bytes are.
Signatures(s) ==
    {i \in 0..(Len(s) - 3) : s[i + 1] = 120 /\ IsZlibSecond(s[i + 2])}

FirstSignature(hits) == CHOOSE i \in hits : \A j \in hits : i <= j

ScanStop(s, hits) ==
    IF hits = {} THEN [panic |-> FALSE, offset |-> Len(s) - 2]
    ELSE [panic |-> FALSE, offset |-> FirstSignature(hits)]

ScanFrom(s, wrapped) ==
    IF wrapped THEN [panic |-> TRUE, offset |-> Len(s)]
    ELSE ScanStop(s, Signatures(s))

\* the branch of a slice flagged compressed
DecompressFlagged(s, bld) ==
    IF Len(s) < 2 /\ bld = "debug" THEN [kind |-> "panic", data |-> <<>>]
    ELSE LET scan == ScanFrom(s, Len(s) < 2)
         IN  IF scan.panic THEN [kind |-> "panic", data |-> <<>>]
             ELSE IF scan.offset < Len(s) - 2
             THEN LET z == Inflate(SubSeq(s, scan.offset + 1, Len(s)))
                  IN  IF z.ok THEN [kind |-> "ok", data |-> z.data]
                      ELSE [kind |-> "err", data |-> <<>>]
             ELSE [kind |-> "ok", data |-> s]

\* the branch of a slice flagged uncompressed: the signature test at offset 9
DecompressUnflagged(s) ==
    IF Len(s) > 9 /\ s[10] = 120
    THEN IF Len(s) < 11 THEN [kind |-> "panic", data |-> <<>>]
         ELSE IF IsZlibSecond(s[11])
              THEN LET z == Inflate(SubSeq(s, 10, Len(s)))
                   IN  IF z.ok THEN [kind |-> "ok", data |-> z.data]
                       ELSE [kind |-> "err", data |-> <<>>]
              ELSE [kind |-> "ok", data |-> s]
    ELSE [kind |-> "ok", data |-> s]

Decompress(s, h, bld) ==
    IF is_compressed(h) THEN DecompressFlagged(s, bld) ELSE DecompressUnflagged(s)

\* ------------------------------------------------------------- integrity
\* The sha1 crate is outside the repository.  Its model: a 20-byte digest that
\* is a function of the bytes (their sum and their number).
Sha1(data) ==
    LET s == SumSeq(data)
    IN  <<s % 256, (s \div 256) % 256, Len(data) % 256>> \o Repeat(0, 17)

\* hex::encode(payload_sha) != header.sha1_hash
ShaMismatch(data, h) == Hex(Sha1(data)) # h.sha1_hash

\* the comparison with the fault of returning Sha1Mismatch on a mismatch
ShaOutcomeFatal(data, h) ==
    [warned |-> ShaMismatch(data, h), fatal |-> ShaMismatch(data, h)]

\* what process_manifest_data does on a mismatch: it warns and goes on
ShaOutcome(data, h) ==
    [warned |-> ShaMismatch(data, h), fatal |-> FALSE]

\* --------------------------------------------------------------- sections
MAX_SECTION_SIZE == 1073741824

\* data_size == 0 || data_size > 1024 * 1024 * 1024
BadSectionSize(data_size) == data_size = 0 \/ data_size > MAX_SECTION_SIZE

\* data_size.saturating_sub(4)
AdjustedSize(data_size) == IF data_size >= 4 THEN data_size - 4 ELSE 0

\* the result f of a limited reader's decode as the result of the section
\* read: the outer cursor is where the section's bytes ended
Rebase(f, r) == IF f.ok THEN Ok(Val(f), r) ELSE Fail(f.err, r)

\* the fields of ManifestMeta::read_meta after data_version, in the order read
MetaFieldKinds(data_version) ==
    <<"i32", "u8", "i32", "fstring", "fstring", "fstring", "fstring",
      "fstring_array", "fstring", "fstring", "fstring">>
    \o (IF data_version >= 1 THEN <<"fstring">> ELSE <<>>)

\* the ManifestMeta built from the fields f
MetaOf(f, data_version, data_size) ==
    [data_size |-> data_size,
     data_version |-> data_version,
     feature_level |-> f[1],
     is_file_data |-> f[2] # 0,
     app_id |-> f[3],
     app_name |-> f[4],
     build_version |-> f[5],
     launch_exe |-> f[6],
     launch_command |-> f[7],
     prereq_ids |-> f[8],
     prereq_name |-> f[9],
     prereq_path |-> f[10],
     prereq_args |-> f[11],
     build_id |-> IF data_version >= 1 THEN Some(f[12]) ELSE None]

MetaRecord(fs, data_version, data_size) ==
    IF ~fs.ok THEN fs ELSE Ok(MetaOf(Val(fs), data_version, data_size), fs.r)

MetaVersion(dv, data_size) ==
    IF ~dv.ok THEN dv
    ELSE MetaRecord(ReadFields(dv.r, MetaFieldKinds(Val(dv)), <<>>), Val(dv), data_size)

\* the fields of ManifestMeta::read_meta, read from the limited reader lr
MetaFields(lr, data_size) == MetaVersion(ReadU8(lr), data_size)

\* the section's remaining bytes rem, decoded through a LimitedReader
MetaBody(rem, data_size) ==
    Rebase(MetaFields(LimitedNew(rem.bytes, Len(rem.bytes)), data_size), rem.r)

\* read_meta after the section's length ds has been read
MetaSection(ds) ==
    IF ~ds.ok THEN ds
    ELSE IF BadSectionSize(Val(ds)) THEN Fail("Invalid", ds.r)
    ELSE MetaBody(ReadBytesTolerant(ds.r, AdjustedSize(Val(ds))), Val(ds))

\* ManifestMeta::read_meta on the outer cursor r: the result carries the outer
\* cursor as the call leaves it
MetaRead(r) == MetaSection(ReadU32(r))

\* the match on read_meta's result with the fault of returning its error
MetaOutcomeFatal(res, meta_start_pos) ==
    [meta |-> IF res.ok THEN Some(Val(res)) ELSE None, r |-> res.r,
     fatal |-> ~res.ok]

\* what process_manifest_data makes of the result of read_meta: the meta
\* option, the cursor for the chunk directory, and whether decode goes on
MetaOutcome(res, meta_start_pos) ==
    IF res.ok
    THEN [meta |-> Some(Val(res)),
          r |-> SeekStart(res.r, meta_start_pos + Val(res).data_size),
          fatal |-> FALSE]
    ELSE [meta |-> None, r |-> res.r, fatal |-> FALSE]

\* trim_end_matches('\0'): the text without its trailing NUL characters
RECURSIVE trim_null_chars(_)
trim_null_chars(value) ==
    IF value # <<>> /\ value[Len(value)] = 0
    THEN trim_null_chars(SubSeq(value, 1, Len(value) - 1))
    ELSE value

\* what the derived Serialize of ManifestMeta emits: the fields marked
\* serialize_with = "trim_null_chars" trimmed, the others as they are
SerializeMeta(m) ==
    [m EXCEPT !.app_name = trim_null_chars(m.app_name),
              !.build_version = trim_null_chars(m.build_version),
              !.launch_exe = trim_null_chars(m.launch_exe),
              !.launch_command = trim_null_chars(m.launch_command),
              !.prereq_name = trim_null_chars(m.prereq_name),
              !.prereq_path = trim_null_chars(m.prereq_path),
              !.prereq_args = trim_null_chars(m.prereq_args)]

\* ------------------------------------------------------- chunk directory
MAX_COUNT == 1000000

\* BuildLookup with the fault of keeping the first index of a guid that
\* comes twice
BuildLookupFirst(guids) ==
    [g \in {guids[i] : i \in 1..Len(guids)} |->
        (CHOOSE i \in 1..Len(guids) :
            /\ guids[i] = g
            /\ \A j \in 1..Len(guids) : guids[j] = g => i <= j) - 1]

\* chunk_lookup after inserting (guids[i], i - 1) for i = 1, 2, ...: a later
\* insert of the same guid replaces the earlier one
BuildLookup(guids) ==
    [g \in {guids[i] : i \in 1..Len(guids)} |->
        (CHOOSE i \in 1..Len(guids) :
            /\ guids[i] = g
            /\ \A j \in 1..Len(guids) : guids[j] = g => j <= i) - 1]

\* the loops of ChunkDataList::read, in the order run: guids, hashes, SHA
\* hashes, groups, window sizes, file sizes
ChunkKinds == <<"guid", "u64", "sha", "u8", "u32", "u64">>

\* the chunks built from the columns c
ChunkElements(c, n) ==
    [i \in 1..n |->
        [guid |-> c[1][i],
         hash |-> Hex(c[2][i]),
         sha_hash |-> Hex(c[3][i]),
         group |-> c[4][i],
         window_size |-> c[5][i],
         file_size |-> c[6][i]]]

ChunkRecord(cs, data_version, n, data_size) ==
    IF ~cs.ok THEN cs
    ELSE Ok([data_size |-> data_size,
             data_version |-> data_version,
             count |-> n,
             elements |-> ChunkElements(Val(cs), n),
             chunk_lookup |-> BuildLookup(Val(cs)[1])], cs.r)

\* the count check, then the columns
ChunkCount(hd, data_size) ==
    IF ~hd.ok THEN hd
    ELSE IF Val(hd)[2] > MAX_COUNT THEN Fail("Invalid", hd.r)
    ELSE ChunkRecord(ReadColumns(hd.r, Val(hd)[2], ChunkKinds, <<>>),
                     Val(hd)[1], Val(hd)[2], data_size)

\* the columns of ChunkDataList::read, from the limited reader lr
ChunkColumns(lr, data_size) ==
    ChunkCount(ReadFields(lr, <<"u8", "u32">>, <<>>), data_size)

ChunkBody(rem, data_size) ==
    Rebase(ChunkColumns(LimitedNew(rem.bytes, Len(rem.bytes)), data_size), rem.r)

ChunkSection(ds) ==
    IF ~ds.ok THEN ds
    ELSE IF BadSectionSize(Val(ds)) THEN Fail("Invalid", ds.r)
    ELSE ChunkBody(ReadBytesTolerant(ds.r, AdjustedSize(Val(ds))), Val(ds))

\* ChunkDataList::read on the outer cursor r
ChunkListRead(r) == ChunkSection(ReadU32(r))

\* -------------------------------------------------------- file directory
MAX_CHUNK_PARTS == 10000

MAX_FILE_VERSION == 2

\* the lookup test with the fault of accepting every GUID
AnyGuid(guid, chunk_lookup) == TRUE

\* chunk_lookup.get(&parent_guid) finds the GUID
KnownGuid(guid, chunk_lookup) == guid \in DOMAIN chunk_lookup

\* chunks.get(chunk_idx).cloned()
ChunkOf(chunk_idx, chunks) ==
    IF chunk_idx < Len(chunks) THEN Some(chunks[chunk_idx + 1]) ELSE None

\* the ChunkPart built once offset and size (fs) are read; the index
\* chunk_lookup[&parent_guid] panics on a GUID the lookup does not hold
PartRecord(fs, data_size, guid, chunk_lookup, chunks) ==
    IF ~fs.ok THEN fs
    ELSE IF guid \notin DOMAIN chunk_lookup THEN Fail("Panic", fs.r)
    ELSE Ok([data_size |-> data_size,
             parent_guid |-> guid,
             offset |-> Val(fs)[1],
             size |-> Val(fs)[2],
             chunk |-> ChunkOf(chunk_lookup[guid], chunks)], fs.r)

\* PartLookup with the fault of a record without its last field: the offset
\* read stands for the size as well
PartLookupNoSize(g, data_size, chunk_lookup, chunks) ==
    IF ~g.ok THEN g
    ELSE IF ~KnownGuid(Val(g), chunk_lookup) THEN Fail("Invalid", g.r)
    ELSE PartRecord(ReadFields(g.r, <<"u32">>, <<0>>),
                    data_size, Val(g), chunk_lookup, chunks)

\* the lookup test on the GUID g read, then offset and size
PartLookup(g, data_size, chunk_lookup, chunks) ==
    IF ~g.ok THEN g
    ELSE IF ~KnownGuid(Val(g), chunk_lookup) THEN Fail("Invalid", g.r)
    ELSE PartRecord(ReadFields(g.r, <<"u32", "u32">>, <<>>),
                    data_size, Val(g), chunk_lookup, chunks)

PartGuid(ds, chunk_lookup, chunks) ==
    IF ~ds.ok THEN ds
    ELSE PartLookup(ReadGuid(ds.r), Val(ds), chunk_lookup, chunks)

\* ChunkPart::read: data_size, the 16-byte guid, the lookup test, offset, size
ChunkPartRead(r, chunk_lookup, chunks) ==
    PartGuid(ReadU32(r), chunk_lookup, chunks)

\* the loop `for j in 0..chunk_count` of one file: it stops at the first part
\* that fails and keeps the parts read so far (a panic unwinds the loop)
RECURSIVE ReadParts(_, _, _, _)
PartsStep(p, n, cl, acc) ==
    IF ~p.ok THEN [parts |-> acc, r |-> p.r, panic |-> p.err = "Panic"]
    ELSE ReadParts(p.r, n - 1, cl, Append(acc, Val(p)))

ReadParts(r, n, cl, acc) ==
    IF n = 0 THEN [parts |-> acc, r |-> r, panic |-> FALSE]
    ELSE PartsStep(ChunkPartRead(r, cl.chunk_lookup, cl.elements), n, cl, acc)

\* file_chunk_size: the sum of chunk.size as i64 over the parts kept
PartsSize(parts) == SumSeq([i \in 1..Len(parts) |-> parts[i].size])

\* OverCap with the fault of a cap that no count exceeds
OverCapNever(chunk_count) == FALSE

\* whether a declared chunk-part count is over the cap
OverCap(chunk_count) == chunk_count > MAX_CHUNK_PARTS

\* FileParts with the fault of summing data_size, not size
FilePartsDataSize(parts) ==
    [chunk_parts |-> parts,
     file_size |-> SumSeq([i \in 1..Len(parts) |-> parts[i].data_size])]

\* what one file gets from its kept parts (file_size stays 0 without parts)
FileParts(parts) ==
    IF Len(parts) > 0
    THEN [chunk_parts |-> parts, file_size |-> PartsSize(parts)]
    ELSE [chunk_parts |-> <<>>, file_size |-> 0]

\* the chunk-part pass over the files: for each file its count and its parts
RECURSIVE ReadFileParts(_, _, _, _)
FileKeep(ps, n, cl, acc) ==
    IF ps.panic THEN Fail("Panic", ps.r)
    ELSE ReadFileParts(ps.r, n - 1, cl, Append(acc, FileParts(ps.parts)))

FileCount(cc, n, cl, acc) ==
    IF ~cc.ok THEN cc
    ELSE IF OverCap(Val(cc))
    THEN ReadFileParts(cc.r, n - 1, cl, Append(acc, FileParts(<<>>)))
    ELSE FileKeep(ReadParts(cc.r, Val(cc), cl, <<>>), n, cl, acc)

ReadFileParts(r, n, cl, acc) ==
    IF n = 0 THEN Ok(acc, r) ELSE FileCount(ReadU32(r), n, cl, acc)

\* seek(SeekFrom::Current(array_size as i64 * 16)) on the limited reader
SkipArray(r, array_size) ==
    IF array_size >= r.limit THEN SeekStart(r, r.limit)
    ELSE SeekCurrent(r, array_size * 16)

\* first version-2 pass: per file a u32 and a skip; ok is version2_success
RECURSIVE SkipArrays(_, _)
SkipStep(a, n) ==
    IF ~a.ok THEN [ok |-> FALSE, r |-> a.r]
    ELSE SkipArrays(SkipArray(a.r, Val(a)), n - 1)

SkipArrays(r, n) ==
    IF n = 0 THEN [ok |-> TRUE, r |-> r] ELSE SkipStep(ReadU32(r), n)

\* second version-2 pass: the MIME types read before the first failure
RECURSIVE ReadMimes(_, _, _)
MimeStep(m, n, acc) ==
    IF ~m.ok THEN acc ELSE ReadMimes(m.r, n - 1, Append(acc, Val(m)))

ReadMimes(r, n, acc) ==
    IF n = 0 THEN acc ELSE MimeStep(ReadFString(r), n, acc)

\* the MIME type of each file: "" where none was read
MimesOf(sk, count) ==
    IF sk.ok
    THEN ReadMimes(sk.r, count, <<>>) \o Repeat(<<>>, count)
    ELSE Repeat(<<>>, count)

\* the version-2 passes.  The third pass (a skip of 32 bytes per file) moves
\* only the limited reader, which is dropped when the read returns.
Version2Mimes(r, data_version, count) ==
    IF data_version >= 2 THEN MimesOf(SkipArrays(r, count), count)
    ELSE Repeat(<<>>, count)

\* the loops of FileManifestList::read before the chunk parts, in the order
\* run: filenames, symlink targets, SHA hashes, meta flags, install tags
FileKinds == <<"fstring", "fstring", "sha", "u8", "fstring_array">>

\* FileElements with the fault of leaving out ("skipping") a file that kept
\* no chunk part
FileElementsSkipping(c, p, m, count) ==
    LET kept == {i \in 1..count : p[i].chunk_parts # <<>>}
        nth(k) == CHOOSE i \in kept : Cardinality({j \in kept : j < i}) = k - 1
    IN  [k \in 1..Cardinality(kept) |->
            [filename |-> c[1][nth(k)],
             symlink_target |-> c[2][nth(k)],
             sha_hash |-> Hex(c[3][nth(k)]),
             file_meta_flags |-> c[4][nth(k)],
             install_tags |-> c[5][nth(k)],
             chunk_parts |-> p[nth(k)].chunk_parts,
             file_size |-> p[nth(k)].file_size,
             mime_type |-> m[nth(k)]]]

\* the files built from the columns c, the parts p and the MIME types m
FileElements(c, p, m, count) ==
    [i \in 1..count |->
        [filename |-> c[1][i],
         symlink_target |-> c[2][i],
         sha_hash |-> Hex(c[3][i]),
         file_meta_flags |-> c[4][i],
         install_tags |-> c[5][i],
         chunk_parts |-> p[i].chunk_parts,
         file_size |-> p[i].file_size,
         mime_type |-> m[i]]]

\* FileRecord with the fault of failing the read when the first version-2
\* pass stops early
FileRecordStrict(c, ps, data_size, data_version, count) ==
    IF ~ps.ok THEN ps
    ELSE IF data_version >= 2 /\ ~SkipArrays(ps.r, count).ok THEN Fail("Io", ps.r)
    ELSE Ok([data_size |-> data_size,
             data_version |-> data_version,
             count |-> count,
             file_manifest_list |->
                FileElements(c, Val(ps),
                             Version2Mimes(ps.r, data_version, count), count)],
            ps.r)

\* the record FileManifestList::read returns: the files built after the
\* chunk-part pass and the version-2 passes
FileRecord(c, ps, data_size, data_version, count) ==
    IF ~ps.ok THEN ps
    ELSE Ok([data_size |-> data_size,
             data_version |-> data_version,
             count |-> count,
             file_manifest_list |->
                FileElements(c, Val(ps),
                             Version2Mimes(ps.r, data_version, count), count)],
            ps.r)

FilePartsPass(cs, data_size, data_version, count, cl) ==
    IF ~cs.ok THEN cs
    ELSE FileRecord(Val(cs), ReadFileParts(cs.r, count, cl, <<>>),
                    data_size, data_version, count)

\* the columns of FileManifestList::read, from the limited reader lr
FileColumns(lr, data_size, data_version, count, cl) ==
    IF count > MAX_COUNT THEN Fail("Invalid", lr)
    ELSE FilePartsPass(ReadColumns(lr, count, FileKinds, <<>>),
                       data_size, data_version, count, cl)

FileBody(rem, data_size, data_version, count, cl) ==
    Rebase(FileColumns(LimitedNew(rem.bytes, Len(rem.bytes)),
                       data_size, data_version, count, cl), rem.r)

\* the count, then the section's bytes
FileCountField(cnt, data_size, data_version, cl) ==
    IF ~cnt.ok THEN cnt
    ELSE FileBody(ReadBytesTolerant(cnt.r, data_size),
                  data_size, data_version, Val(cnt), cl)

\* the version check
FileVersion(dv, data_size, cl) ==
    IF ~dv.ok THEN dv
    ELSE IF Val(dv) > MAX_FILE_VERSION THEN Fail("Invalid", dv.r)
    ELSE FileCountField(ReadU32(dv.r), data_size, Val(dv), cl)

FileSection(ds, cl) ==
    IF ~ds.ok THEN ds
    ELSE IF BadSectionSize(Val(ds)) THEN Fail("Invalid", ds.r)
    ELSE FileVersion(ReadU8(ds.r), Val(ds), cl)

\* FileManifestList::read on the outer cursor r, against the chunk directory cl
FileListRead(r, cl) == FileSection(ReadU32(r), cl)

\* ------------------------------------------------------- JSON variant
\* A text is a sequence of UTF-8 bytes.  serde_json is outside the repository:
\* the parsed document of a buffer is an input beside the buffer (`json`, None
\* when the buffer is not a JSON document).  A document is
\*   [keys, typed, version, app_id, app_name, build_version, launch_exe, files]
\* with keys the top-level keys present, typed whether its values have the
\* types of JsonManifest, and files a sequence of
\*   [filename, file_hash, unix, parts], parts a sequence of [guid, offset, size].

RequiredKeys ==
    {"ManifestFileVersion", "bIsFileData", "AppID", "AppNameString",
     "BuildVersionString", "LaunchExeString", "LaunchCommand", "PrereqIds",
     "PrereqName", "PrereqPath", "PrereqArgs", "FileManifestList"}

\* is_json_manifest with the fault of not asking for FileManifestList
is_json_loose(data, parsed) ==
    /\ data # <<>>
    /\ data[1] = 123
    /\ IsSome(parsed)
    /\ "ManifestFileVersion" \in parsed[1].keys

\* is_json_manifest
is_json_manifest(data, parsed) ==
    /\ data # <<>>
    /\ data[1] = 123
    /\ IsSome(parsed)
    /\ "ManifestFileVersion" \in parsed[1].keys
    /\ "FileManifestList" \in parsed[1].keys

\* JsonManifest::from_str: serde's typed deserialisation succeeds
FromStrOk(doc) == RequiredKeys \subseteq doc.keys /\ doc.typed

\* the value of an ASCII hex digit, -1 for any other byte
HexDigit(c) ==
    IF c >= 48 /\ c <= 57 THEN c - 48
    ELSE IF c >= 97 /\ c <= 102 THEN c - 87
    ELSE IF c >= 65 /\ c <= 70 THEN c - 55
    ELSE -1

\* Uuid::from_str(t).to_string(): the simple (32 digits) and the hyphenated
\* (8-4-4-4-12) forms in either case; the result is the canonical digits
ParseGuid(t) ==
    LET hy == {9, 14, 19, 24}
        at(k) == k + Cardinality({h \in {8, 12, 16, 20} : k > h})
        digits == IF Len(t) = 36 /\ \A i \in hy : t[i] = 45
                  THEN [k \in 1..32 |-> t[at(k)]]
                  ELSE t
    IN  IF Len(digits) = 32 /\ \A i \in 1..32 : HexDigit(digits[i]) >= 0
        THEN Some([i \in 1..32 |-> HexDigit(digits[i])])
        ELSE None

\* str::parse::<u64>: the value as usize limbs, None on an empty text, a byte
\* that is no digit, or a value above u64::MAX; one leading '+' is accepted
RECURSIVE ParseDigits(_, _)
ParseDigits(t, acc) ==
    IF t = <<>> THEN Some(acc)
    ELSE IF Head(t) < 48 \/ Head(t) > 57 THEN None
    ELSE LET s1 == acc[1] * 10 + (Head(t) - 48)
             s2 == acc[2] * 10 + (s1 \div Limb)
             s3 == acc[3] * 10 + (s2 \div Limb)
             s4 == acc[4] * 10 + (s3 \div Limb)
         IN  IF s4 >= Limb THEN None
             ELSE ParseDigits(Tail(t), <<s1 % Limb, s2 % Limb, s3 % Limb, s4 % Limb>>)

ParseU64(t) ==
    LET body == IF t # <<>> /\ Head(t) = 43 THEN Tail(t) ELSE t
    IN  IF body = <<>> THEN None ELSE ParseDigits(body, <<0, 0, 0, 0>>)

\* str::parse::<u32>, as an i32 after `as i32`
ParseU32AsI32(t) ==
    LET v == ParseU64(t)
    IN  IF ~IsSome(v) THEN None
        ELSE IF v[1][3] # 0 \/ v[1][4] # 0 THEN None
        ELSE IF v[1][2] < 32768 THEN Some(v[1][1] + Limb * v[1][2])
        ELSE Some(v[1][1] + Limb * (v[1][2] - Limb))

\* `as u32` of the i64 that parse_hex_string returns: the low 32 bits
TruncU32(v) == v[1] + Limb * v[2]

\* whether byte offset i of text t is a char boundary (str::is_char_boundary)
IsCharBoundary(t, i) ==
    i = 0 \/ i = Len(t) \/ (i < Len(t) /\ ~(t[i + 1] >= 128 /\ t[i + 1] < 192))

\* parse_version: kind "ok" with the value, "err", or "panic" when the slice
\* of the last 8 bytes does not start on a char boundary
ParseVersion(t) ==
    LET tail8 == IF Len(t) > 8 THEN SubSeq(t, Len(t) - 7, Len(t)) ELSE t
        v == ParseU32AsI32(tail8)
    IN  IF Len(t) > 8 /\ ~IsCharBoundary(t, Len(t) - 8) THEN [kind |-> "panic", v |-> 0]
        ELSE IF IsSome(v) THEN [kind |-> "ok", v |-> v[1]]
        ELSE [kind |-> "err", v |-> 0]

\* str::parse::<u8> of one 3-byte group
ParseU8(t) ==
    LET v == ParseU64(t)
    IN  IF IsSome(v) /\ v[1][2] = 0 /\ v[1][3] = 0 /\ v[1][4] = 0 /\ v[1][1] <= 255
        THEN Some(v[1][1]) ELSE None

\* parse_file_hash: 20 groups of 3 decimal digits
ParseFileHash(t) ==
    LET group(i) == SubSeq(t, 3 * i - 2, 3 * i)
        bad(i) == ~IsCharBoundary(t, 3 * i - 3) \/ ~IsCharBoundary(t, 3 * i)
        fails == {i \in 1..20 : bad(i) \/ ~IsSome(ParseU8(group(i)))}
        first == CHOOSE i \in fails : \A j \in fails : i <= j
    IN  IF Len(t) # 60 THEN [kind |-> "err", v |-> <<>>]
        ELSE IF fails = {} THEN [kind |-> "ok", v |-> [i \in 1..20 |-> ParseU8(group(i))[1]]]
        ELSE IF bad(first) THEN [kind |-> "panic", v |-> <<>>]
        ELSE [kind |-> "err", v |-> <<>>]

\* usize::to_string for a small count
RECURSIVE DecString(_)
DecString(n) == IF n < 10 THEN <<48 + n>> ELSE Append(DecString(n \div 10), 48 + (n % 10))

\* the ASCII text of a canonical guid (hyphens left out)
GuidAscii(g) == [i \in 1..Len(g) |-> IF g[i] < 10 THEN 48 + g[i] ELSE 87 + g[i]]

\* generate_hash_from_guid: DefaultHasher is outside the repository; its model
\* is a 64-bit value that is a function of the guid text
generate_hash_from_guid(g) ==
    LET s == SumSeq(GuidAscii(g)) IN Hex(Repeat(0, 6) \o <<(s \div 256) % 256, s % 256>>)

\* generate_sha_hash_from_guid
generate_sha_hash_from_guid(g) == Hex(Sha1(GuidAscii(g)))

STANDARD_CHUNK_SIZE == 1048576

\* generate_manifest_sha1_hash
generate_manifest_sha1_hash(doc) ==
    Hex(Sha1(doc.version \o doc.app_id \o doc.app_name \o doc.build_version
             \o doc.launch_exe \o DecString(Len(doc.files))))

\* all chunk-part guid texts of the document, in document order
AllGuidTexts(doc) ==
    Flatten([i \in 1..Len(doc.files) |->
               [j \in 1..Len(doc.files[i].parts) |-> doc.files[i].parts[j].guid]])

\* UniqueChunks with the fault of inserting the texts as written in the
\* document, not their canonical form
UniqueChunksRaw(doc) ==
    LET ts == AllGuidTexts(doc) IN {ts[i] : i \in 1..Len(ts)}

\* the HashSet unique_chunks: the canonical guids of all parts
UniqueChunks(doc) ==
    LET ts == AllGuidTexts(doc) IN {ParseGuid(ts[i])[1] : i \in 1..Len(ts)}

\* the synthesized Chunk of a guid
JsonChunk(g) ==
    [guid |-> g,
     hash |-> generate_hash_from_guid(g),
     sha_hash |-> generate_sha_hash_from_guid(g),
     group |-> 0,
     window_size |-> STANDARD_CHUNK_SIZE,
     file_size |-> DecString(STANDARD_CHUNK_SIZE)]

\* the chunk directory built from the HashMap `chunks`, whose iteration order
\* is `order` (a sequence holding each unique guid once)
JsonChunkList(order) ==
    [data_size |-> 0, data_version |-> 0, count |-> Len(order),
     elements |-> [i \in 1..Len(order) |-> JsonChunk(order[i])],
     chunk_lookup |-> [g \in {order[i] : i \in 1..Len(order)} |->
                         (CHOOSE i \in 1..Len(order) : order[i] = g) - 1]]

\* one ChunkPart of the JSON path
JsonPart(p) ==
    [data_size |-> 0,
     parent_guid |-> ParseGuid(p.guid)[1],
     offset |-> TruncU32(ParseU64(p.offset)[1]),
     size |-> TruncU32(ParseU64(p.size)[1]),
     chunk |-> None]

\* one FileManifest of the JSON path
JsonFile(f) ==
    LET parts == [j \in 1..Len(f.parts) |-> JsonPart(f.parts[j])]
    IN  [filename |-> f.filename,
         symlink_target |-> <<>>,
         sha_hash |-> Hex(ParseFileHash(f.file_hash).v),
         file_meta_flags |-> IF f.unix = Some(TRUE) THEN 4 ELSE 0,
         install_tags |-> <<>>,
         chunk_parts |-> parts,
         file_size |-> PartsSize(parts),
         mime_type |-> <<>>]

\* the first failure of to_manifest, in the order the code meets them:
\* "ok", "err" (ManifestError::Invalid) or "panic"
RECURSIVE FileFailure(_, _)
FileFailure(files, i) ==
    IF i > Len(files) THEN "ok"
    ELSE LET f == files[i]
             badPart == {j \in 1..Len(f.parts) :
                            \/ ~IsSome(ParseU64(f.parts[j].offset))
                            \/ ~IsSome(ParseU64(f.parts[j].size))}
             h == ParseFileHash(f.file_hash)
         IN  IF badPart # {} THEN "err"
             ELSE IF h.kind # "ok" THEN h.kind
             ELSE FileFailure(files, i + 1)

ToManifestFailure(doc) ==
    LET ver == ParseVersion(doc.version)
        ts == AllGuidTexts(doc)
    IN  IF ver.kind # "ok" THEN ver.kind
        ELSE IF ~IsSome(ParseU32AsI32(doc.app_id)) THEN "err"
        ELSE IF \E i \in 1..Len(ts) : ~IsSome(ParseGuid(ts[i])) THEN "err"
        ELSE FileFailure(doc.files, 1)

\* from_str, then to_manifest: "ok" or the first failure
JsonFailure(doc) == IF ~FromStrOk(doc) THEN "err" ELSE ToManifestFailure(doc)

\* JsonManifest::to_manifest when nothing fails, for a HashMap order
ToManifest(doc, order) ==
    [header |-> [header_size |-> 0, data_size_uncompressed |-> 0,
                 data_size_compressed |-> 0,
                 sha1_hash |-> generate_manifest_sha1_hash(doc),
                 stored_as |-> 0,
                 version |-> ParseVersion(doc.version).v],
     meta |-> Some([data_size |-> 0, data_version |-> 0, feature_level |-> 0,
                    is_file_data |-> TRUE,
                    app_id |-> ParseU32AsI32(doc.app_id)[1],
                    app_name |-> doc.app_name,
                    build_version |-> doc.build_version,
                    launch_exe |-> doc.launch_exe,
                    launch_command |-> <<>>, prereq_ids |-> <<>>,
                    prereq_name |-> <<>>, prereq_path |-> <<>>,
                    prereq_args |-> <<>>, build_id |-> None]),
     chunk_list |-> Some(JsonChunkList(order)),
     file_list |-> Some([data_size |-> 0, data_version |-> 0,
                         count |-> Len(doc.files),
                         file_manifest_list |->
                            [i \in 1..Len(doc.files) |-> JsonFile(doc.files[i])]])]

\* the orders in which a HashMap holding the guids of set S may iterate
Orders(S) ==
    {o \in [1..Cardinality(S) -> S] : \A i, j \in 1..Cardinality(S) : o[i] = o[j] => i = j}

\* ------------------------------------------------------ the state machine
\* The result of a decode: kind is "none" (still running), "ok" (a Manifest),
\* "err" (with the ManifestError variant) or "panic"; `at` is the stage of
\* process_manifest_data that ended the decode.
NoResult == [kind |-> "none", err |-> "", at |-> ""]

\* the reader and the last operation of a run that exercises no reader alone
NoReader == [kind |-> "cursor", data |-> <<>>, position |-> 0, limit |-> 0]

NoOp == [op |-> "none", n |-> 0, before |-> NoReader, ok |-> TRUE, err |-> "",
         out |-> <<>>]

Err(e, at) == [kind |-> "err", err |-> e, at |-> at]

Panic(at) == [kind |-> "panic", err |-> "", at |-> at]

Success(at) == [kind |-> "ok", err |-> "", at |-> at]

\* the result of a stage that failed with error kind e, or panicked
Failure(e, at) == IF e = "Panic" THEN Panic(at) ELSE Err(e, at)

\* process_manifest_data, the test `if is_json_manifest(&buf)`
Sniff ==
    /\ pc = "sniff"
    /\ pc' = IF is_json_manifest(buf, json) THEN "json" ELSE "header"
    /\ UNCHANGED <<buf, json, build, rdpos, header, slice, payload, warned,
                   cur, meta, chunk_list, file_list, result>>
    /\ UNCHANGED <<rd, last>>

\* the JSON branch: from_utf8, JsonManifest::from_str, to_manifest
JsonDecode ==
    /\ pc = "json"
    /\ pc' = "done"
    /\ \E fail \in {JsonFailure(json[1])} :
          IF fail # "ok"
          THEN /\ result' = IF fail = "panic" THEN Panic("json")
                                            ELSE Err("Invalid", "json")
               /\ UNCHANGED <<header, meta, chunk_list, file_list>>
          ELSE \E order \in Orders(UniqueChunks(json[1])) :
                 \E m \in {ToManifest(json[1], order)} :
                     /\ header' = m.header
                     /\ meta' = m.meta
                     /\ chunk_list' = m.chunk_list
                     /\ file_list' = m.file_list
                     /\ result' = Success("json")
    /\ UNCHANGED <<buf, json, build, rdpos, slice, payload, warned, cur>>
    /\ UNCHANGED <<rd, last>>

\* ManifestHeader::read(&mut rdr)?
ReadHeader ==
    /\ pc = "header"
    /\ \E res \in {HeaderRead(buf)} :
           /\ rdpos' = res.r.position
           /\ IF res.ok
              THEN /\ header' = Val(res)
                   /\ pc' = "frame"
                   /\ UNCHANGED result
              ELSE /\ result' = Err(res.err, "header")
                   /\ pc' = "done"
                   /\ UNCHANGED header
    /\ UNCHANGED <<buf, json, build, slice, payload, warned, cur, meta,
                   chunk_list, file_list>>
    /\ UNCHANGED <<rd, last>>

\* the block that computes payload_compressed
FramePayload ==
    /\ pc = "frame"
    /\ \E f \in {Frame(buf, header, build)} :
           /\ slice' = f.slice
           /\ pc' = IF f.kind = "ok" THEN "encrypted" ELSE "done"
           /\ result' = IF f.kind = "ok" THEN result
                        ELSE IF f.kind = "err" THEN Err("Invalid", "frame")
                        ELSE Panic("frame")
    /\ UNCHANGED <<buf, json, build, rdpos, header, payload, warned, cur, meta,
                   chunk_list, file_list>>
    /\ UNCHANGED <<rd, last>>

\* if header.is_encrypted() { return Err(EncryptedManifest) }
RejectEncrypted ==
    /\ pc = "encrypted"
    /\ pc' = IF is_encrypted(header) THEN "done" ELSE "decompress"
    /\ result' = IF is_encrypted(header) THEN Err("Encrypted", "encrypted")
                  ELSE result
    /\ UNCHANGED <<buf, json, build, rdpos, header, slice, payload, warned,
                   cur, meta, chunk_list, file_list>>
    /\ UNCHANGED <<rd, last>>

\* let payload = if header.is_compressed() { ... } else { ... }
DecompressPayload ==
    /\ pc = "decompress"
    /\ \E d \in {Decompress(slice, header, build)} :
           /\ payload' = d.data
           /\ pc' = IF d.kind = "ok" THEN "sha" ELSE "done"
           /\ result' = IF d.kind = "ok" THEN result
                        ELSE IF d.kind = "err" THEN Err("Inflate", "decompress")
                        ELSE Panic("decompress")
    /\ UNCHANGED <<buf, json, build, rdpos, header, slice, warned, cur, meta,
                   chunk_list, file_list>>
    /\ UNCHANGED <<rd, last>>

\* the SHA-1 comparison, then Cursor::new(payload)
CheckSha ==
    /\ pc = "sha"
    /\ \E o \in {ShaOutcome(payload, header)} :
           /\ warned' = o.warned
           /\ pc' = IF o.fatal THEN "done" ELSE "meta"
           /\ result' = IF o.fatal THEN Err("Sha1Mismatch", "sha") ELSE result
    /\ cur' = 0
    /\ UNCHANGED <<buf, json, build, rdpos, header, slice, payload, meta,
                   chunk_list, file_list>>
    /\ UNCHANGED <<rd, last>>

\* ManifestMeta::read_meta, the match on its result and the seek
ReadMeta ==
    /\ pc = "meta"
    /\ \E o \in {MetaOutcome(MetaRead(Cursor(payload, cur)), cur)} :
           /\ meta' = o.meta
           /\ cur' = o.r.position
           /\ pc' = IF o.fatal THEN "done" ELSE "chunks"
           /\ result' = IF o.fatal THEN Err("Invalid", "meta") ELSE result
    /\ UNCHANGED <<buf, json, build, rdpos, header, slice, payload, warned,
                   chunk_list, file_list>>
    /\ UNCHANGED <<rd, last>>

\* ChunkDataList::read(&mut cur)?
ReadChunkList ==
    /\ pc = "chunks"
    /\ \E res \in {ChunkListRead(Cursor(payload, cur))} :
           /\ cur' = res.r.position
           /\ IF res.ok
              THEN /\ chunk_list' = Some(Val(res))
                   /\ pc' = "files"
                   /\ UNCHANGED result
              ELSE /\ result' = Err(res.err, "chunks")
                   /\ pc' = "done"
                   /\ UNCHANGED chunk_list
    /\ UNCHANGED <<buf, json, build, rdpos, header, slice, payload, warned,
                   meta, file_list>>
    /\ UNCHANGED <<rd, last>>

\* FileManifestList::read(&mut cur, &chunk_list)? and Ok(Manifest { .. })
ReadFileList ==
    /\ pc = "files"
    /\ \E res \in {FileListRead(Cursor(payload, cur), chunk_list[1])} :
           /\ cur' = res.r.position
           /\ pc' = "done"
           /\ IF res.ok
              THEN /\ file_list' = Some(Val(res))
                   /\ result' = Success("files")
              ELSE /\ result' = Failure(res.err, "files")
                   /\ UNCHANGED file_list
    /\ UNCHANGED <<buf, json, build, rdpos, header, slice, payload, warned,
                   meta, chunk_list>>
    /\ UNCHANGED <<rd, last>>

\* ------------------------------------------- the decode as one function
\* process_manifest_data on a buffer that is not the JSON variant, as the
\* composition of the stages above: what the decode returns.

\* the metadata of a returned Manifest is serialised; the Manifest is left
\* as it is
Serialise ==
    /\ pc = "done"
    /\ result.kind = "ok"
    /\ IsSome(meta)
    /\ pc' = "serialised"
    /\ last' = [op |-> "serialize", n |-> 0, before |-> rd, ok |-> TRUE, err |-> "",
                out |-> <<SerializeMeta(meta[1])>>]
    /\ UNCHANGED <<buf, json, build, rdpos, header, slice, payload, warned, cur,
                   meta, chunk_list, file_list, result, rd>>

Returned(res, m, cl, fl) ==
    [result |-> res, meta |-> m, chunk_list |-> cl, file_list |-> fl]

FromFiles(res, m, cl) ==
    IF res.ok THEN Returned(Success("files"), m, Some(cl), Some(Val(res)))
    ELSE Returned(Failure(res.err, "files"), m, Some(cl), None)

FromChunks(res, data, m) ==
    IF ~res.ok THEN Returned(Err(res.err, "chunks"), m, None, None)
    ELSE FromFiles(FileListRead(Cursor(data, res.r.position), Val(res)),
                   m, Val(res))

FromMeta(o, data) ==
    IF o.fatal THEN Returned(Err("Invalid", "meta"), None, None, None)
    ELSE FromChunks(ChunkListRead(Cursor(data, o.r.position)), data, o.meta)

FromSha(o, data) ==
    IF o.fatal THEN Returned(Err("Sha1Mismatch", "sha"), None, None, None)
    ELSE FromMeta(MetaOutcome(MetaRead(Cursor(data, 0)), 0), data)

FromPayload(d, h) ==
    IF d.kind = "err" THEN Returned(Err("Inflate", "decompress"), None, None, None)
    ELSE IF d.kind = "panic" THEN Returned(Panic("decompress"), None, None, None)
    ELSE FromSha(ShaOutcome(d.data, h), d.data)

FromFrame(f, h, bld) ==
    IF f.kind = "err" THEN Returned(Err("Invalid", "frame"), None, None, None)
    ELSE IF f.kind = "panic" THEN Returned(Panic("frame"), None, None, None)
    ELSE IF is_encrypted(h)
    THEN Returned(Err("Encrypted", "encrypted"), None, None, None)
    ELSE FromPayload(Decompress(f.slice, h, bld), h)

FromHeader(res, data, bld) ==
    IF ~res.ok THEN Returned(Err(res.err, "header"), None, None, None)
    ELSE FromFrame(Frame(data, Val(res), bld), Val(res), bld)

DecodeBinary(data, bld) == FromHeader(HeaderRead(data), data, bld)

\* ------------------------------------------------------------ the inputs
\* Buffers are built by encoding small manifests in the layout the readers
\* above decode, and by damaging the encoding.

MaxChunks == 2

MaxFiles == 2

MaxParts == 2

\* the little-endian bytes of an i32
LE32(x) ==
    LET y == IF x >= 0 THEN x ELSE (x + I32MAX) + 1
        top == y \div 16777216
    IN  <<y % 256, (y \div 256) % 256, (y \div 65536) % 256,
          IF x >= 0 THEN top ELSE top + 128>>

EncFString(t) == LE32(Len(t)) \o t

\* the 16 bytes of the k-th guid
GuidBytes(k) == Repeat(16 + k, 16)

\* a guid no chunk directory of the model holds
UnknownGuid == MaxChunks + 1

\* a metadata section.  "v0" and "v1" are well formed (data-version 0 and 1),
\* "pad" is "v0" followed by unused bytes inside the section, "zero" declares
\* length 0, "short" ends inside the feature level, "over" declares fewer
\* bytes than its fields take, "tiny" declares length 2, "huge" length
\* 2^32 - 1, and "nul" is well formed with NUL-terminated strings
EncMetaFields(dv) ==
    <<dv>> \o LE32(17) \o <<1>> \o LE32(-3) \o EncFString(<<65, 0>>)
    \o EncFString(<<49>>) \o EncFString(<<>>) \o EncFString(<<>>)
    \o LE32(1) \o EncFString(<<80>>)
    \o EncFString(<<>>) \o EncFString(<<>>) \o EncFString(<<>>)
    \o (IF dv >= 1 THEN EncFString(<<66>>) ELSE <<>>)

\* the fields of data-version 1 with every string NUL-terminated
EncMetaNul ==
    <<1>> \o LE32(17) \o <<1>> \o LE32(-3) \o EncFString(<<65, 0>>)
    \o EncFString(<<49, 0>>) \o EncFString(<<69, 0, 0>>) \o EncFString(<<0>>)
    \o LE32(2) \o EncFString(<<80, 0>>) \o EncFString(<<81>>)
    \o EncFString(<<78, 0>>) \o EncFString(<<47, 0>>) \o EncFString(<<45, 0>>)
    \o EncFString(<<66, 0>>)

\* a section of declared length 4 + Len(body) + extra
Section(body, extra) == LE32(4 + Len(body) + extra) \o body

EncMeta(kind) ==
    CASE kind = "v0" -> Section(EncMetaFields(0), 0)
      [] kind = "v1" -> Section(EncMetaFields(1), 0)
      [] kind = "pad" -> Section(EncMetaFields(0), 3) \o <<7, 7, 7>>
      [] kind = "zero" -> LE32(0)
      [] kind = "short" -> LE32(7) \o <<0, 17, 0>>
      [] kind = "over" -> Section(SubSeq(EncMetaFields(0), 1, Len(EncMetaFields(0)) - 6), 0)
      [] kind = "tiny" -> LE32(2)
      [] kind = "huge" -> LE32(-1)
      [] kind = "nul" -> Section(EncMetaNul, 0)

MetaKinds == {"v0", "v1", "pad", "zero", "short", "over", "tiny", "huge", "nul"}

\* the bytes of a chunk directory after its length: the k-th chunk has guid
\* gs[k]
EncChunkBody(gs) ==
    <<0>> \o LE32(Len(gs))
    \o Flatten([k \in 1..Len(gs) |-> GuidBytes(gs[k])])
    \o Flatten([k \in 1..Len(gs) |-> <<k, 2, 3, 4, 5, 6, 7, 8>>])
    \o Flatten([k \in 1..Len(gs) |-> Repeat(32 + k, 20)])
    \o Flatten([k \in 1..Len(gs) |-> <<k>>])
    \o Flatten([k \in 1..Len(gs) |-> LE32(64 * k)])
    \o Flatten([k \in 1..Len(gs) |-> <<100 + k, 0, 0, 0, 0, 0, 0, 0>>])

\* a chunk directory of n chunks with guids 1..n
EncChunkList(n) == Section(EncChunkBody([k \in 1..n |-> k]), 0)

\* one chunk-part record: data_size, guid, offset, size
EncPart(rec) == LE32(28) \o GuidBytes(rec.g) \o LE32(rec.offset) \o LE32(rec.size)

\* the j-th part of a file, pointing at guid g
Rec(j, g) == [g |-> g, offset |-> j, size |-> 10 * j + 5]

\* the chunk-part lists a file may carry: [declared, recs]
PartPatterns ==
    {[declared |-> n, recs |-> [j \in 1..n |-> Rec(j, 1)]] : n \in 0..MaxParts}
    \cup {[declared |-> n,
           recs |-> [j \in 1..n |-> Rec(j, IF j = b THEN UnknownGuid ELSE 1)]] :
            n \in 1..MaxParts, b \in 1..MaxParts}
    \cup {[declared |-> MAX_CHUNK_PARTS + 1, recs |-> <<>>]}

DefaultPattern == [declared |-> 1, recs |-> <<Rec(1, 1)>>]

\* the file lists: every file carries DefaultPattern but one
FileSpecs ==
    {<<>>} \cup
    {[i \in 1..f |-> IF i = sp THEN p ELSE DefaultPattern] :
        f \in 1..MaxFiles, sp \in 1..MaxFiles, p \in PartPatterns}

\* a file directory of format version ver
EncFileBody(ver, files, n) ==
    Flatten([i \in 1..n |-> EncFString(<<102, 48 + i>>)])
    \o Flatten([i \in 1..n |-> EncFString(<<>>)])
    \o Flatten([i \in 1..n |-> Repeat(48 + i, 20)])
    \o Flatten([i \in 1..n |-> <<i % 8>>])
    \o Flatten([i \in 1..n |-> LE32(1) \o EncFString(<<116>>)])
    \o Flatten([i \in 1..n |->
          LE32(files[i].declared)
          \o Flatten([j \in 1..Len(files[i].recs) |-> EncPart(files[i].recs[j])])])
    \o (IF ver >= 2
        THEN Flatten([i \in 1..n |-> LE32(0)])
             \o Flatten([i \in 1..n |-> EncFString(<<109, 48 + i>>)])
             \o Flatten([i \in 1..n |-> Repeat(0, 32)])
        ELSE <<>>)

\* the prefix of 9 bytes (length, version, count), then the body
FilePrefix(ver, n, body) == LE32(9 + Len(body)) \o <<ver>> \o LE32(n) \o body

EncFileList(ver, files) ==
    FilePrefix(ver, Len(files), EncFileBody(ver, files, Len(files)))

\* a decompressed payload: [meta, chunks, ver, files]
EncPayload(ps) ==
    EncMeta(ps.meta) \o EncChunkList(ps.chunks) \o EncFileList(ps.ver, ps.files)

BasePayload ==
    [meta |-> "v0", chunks |-> 1, ver |-> 0, files |-> <<DefaultPattern>>]

PayloadSpecs ==
    {[BasePayload EXCEPT !.meta = m, !.ver = v] : m \in MetaKinds, v \in {0, 2}}
    \cup {[meta |-> "v1", chunks |-> c, ver |-> v, files |-> fs] :
            c \in 0..MaxChunks, v \in {0, 2}, fs \in FileSpecs}

\* payloads with a damaged directory.  The chunk directory and the file
\* directory below are cut after keep bytes of their bodies; the file
\* directory is also written whole under a declared length that is too small
DamagedGuids == <<1, 2>>

DamagedFiles == <<[declared |-> 2, recs |-> <<Rec(1, 1), Rec(2, 2)>>], DefaultPattern>>

CutChunkList(keep) == Section(SubSeq(EncChunkBody(DamagedGuids), 1, keep), 0)

DamagedFileBody(ver) == EncFileBody(ver, DamagedFiles, Len(DamagedFiles))

FileBytes(ver, declared, body) ==
    LE32(declared) \o <<ver>> \o LE32(Len(DamagedFiles)) \o body

CutFileList(ver, keep) ==
    FileBytes(ver, 9 + keep, SubSeq(DamagedFileBody(ver), 1, keep))

UnderDeclaredFileList(ver, declared) ==
    FileBytes(ver, declared, DamagedFileBody(ver))

\* chunk directories that hold a guid twice
RepeatedGuids == {<<1, 1>>, <<1, 2, 1>>}

CutChunkPayloads ==
    {EncMeta("v1") \o CutChunkList(keep) \o EncFileList(0, <<DefaultPattern>>) :
        keep \in 0..(Len(EncChunkBody(DamagedGuids)) - 1)}

CutFilePayloads ==
    UNION {{EncMeta("v1") \o EncChunkList(Len(DamagedGuids)) \o CutFileList(ver, keep) :
              keep \in 0..(Len(DamagedFileBody(ver)) - 1)} : ver \in {0, 2}}

UnderDeclaredPayloads ==
    UNION {{EncMeta("v1") \o EncChunkList(Len(DamagedGuids))
              \o UnderDeclaredFileList(ver, declared) :
              declared \in 1..(8 + Len(DamagedFileBody(ver)))} : ver \in {0, 2}}

RepeatedGuidPayloads ==
    {EncMeta("v1") \o Section(EncChunkBody(gs), 0) \o EncFileList(0, <<DefaultPattern>>) :
        gs \in RepeatedGuids}

\* file lists with a file whose count is over the cap and whose records are
\* in the section all the same (the first of them is written)
OverCapPattern == [declared |-> MAX_CHUNK_PARTS + 1, recs |-> <<Rec(1, 1)>>]

OverCapFiles == {<<OverCapPattern, DefaultPattern>>, <<DefaultPattern, OverCapPattern>>}

OverCapPayloads ==
    {EncMeta("v1") \o EncChunkList(1) \o EncFileList(ver, fs) :
        ver \in {0, 2}, fs \in OverCapFiles}

DamagedPayloads ==
    CutChunkPayloads \cup CutFilePayloads \cup UnderDeclaredPayloads
    \cup RepeatedGuidPayloads \cup OverCapPayloads

\* the stream decompress_to_vec_zlib inflates to data
Deflate(data) == <<120, 156>> \o data \o <<CheckByte(data)>>

MagicBytes == <<12, 192, 190, 68>>

\* a binary buffer.  hl is the length of the header as laid out (37: no
\* version field), hs the header_size field, region the bytes after the
\* header, sel the size field the flags select, other the other size field
MkBuffer(magic, hl, hs, sel, other, hash, flags, ver, region) ==
    LET fixed == magic \o LE32(hs)
                 \o (IF HasFlag(flags, STORED_COMPRESSED)
                     THEN LE32(other) \o LE32(sel) ELSE LE32(sel) \o LE32(other))
                 \o hash \o <<flags>>
        tail == IF hl > LEGACY_HEADER_SIZE
                THEN LE32(ver) \o Repeat(0, hl - LEGACY_HEADER_SIZE - 4) ELSE <<>>
    IN  fixed \o tail \o region

\* a well-formed buffer for a payload: flags 0 or 1, honest sizes, and the
\* hash matching or not
RegionOf(data, flags) ==
    IF HasFlag(flags, STORED_COMPRESSED) THEN Deflate(data) ELSE data

SizedBuffer(data, hl, flags, hash, ver, region) ==
    MkBuffer(MagicBytes, hl, hl, Len(region), Len(data), hash, flags, ver, region)

GoodBuffer(data, hl, flags, hashOk, ver) ==
    SizedBuffer(data, hl, flags, IF hashOk THEN Sha1(data) ELSE Repeat(9, 20),
                ver, RegionOf(data, flags))

NoJson == [buf |-> <<>>, json |-> None]

\* buffers that decode the payloads of PayloadSpecs
PayloadInputs ==
    {[NoJson EXCEPT !.buf = GoodBuffer(EncPayload(ps), 41, flags, hashOk, 3)] :
        ps \in PayloadSpecs, flags \in {0, 1}, hashOk \in BOOLEAN}

\* buffers that frame the payloads of DamagedPayloads
DamagedInputs ==
    {[NoJson EXCEPT !.buf = GoodBuffer(p, 41, 0, TRUE, 3)] : p \in DamagedPayloads}

\* slices for a header that says uncompressed: short ones, ones that end at
\* offset 9 with 0x78, and ones with 0x78 at offset 9 followed by a second
\* byte and a stream that inflates, that does not, or nothing
UnflaggedSlices ==
    {Repeat(7, n) : n \in 0..11}
    \cup {Repeat(7, 9) \o <<120>>}
    \cup {Repeat(7, 9) \o <<120, b>> \o tail :
            b \in {1, 5, 156, 218},
            tail \in {<<>>,
                      EncPayload(BasePayload) \o <<CheckByte(EncPayload(BasePayload))>>,
                      EncPayload(BasePayload) \o <<CheckByte(EncPayload(BasePayload)) + 1>>}}

UnflaggedInputs ==
    {[NoJson EXCEPT !.buf =
        MkBuffer(MagicBytes, 41, 41, Len(sl), Len(sl), Sha1(sl), 0, 3, sl)] :
        sl \in UnflaggedSlices}

HeaderLengths == {37, 41, 45}

\* buffers with every combination of header fields around one payload
HeaderBuffers(data) ==
    {[NoJson EXCEPT !.buf =
        MkBuffer(MagicBytes, hl, hs, sel, Len(data), Sha1(data), flags, ver,
                 RegionOf(data, flags))] :
        hl \in HeaderLengths,
        hs \in {-1, 0, 37, 38, 41, 45, 4096},
        sel \in {-1, 0, 1, Len(data), Len(data) + 3, Len(data) + 4},
        flags \in 0..3,
        ver \in {-2, 7}}

HeaderInputs == HeaderBuffers(EncPayload(BasePayload))

\* buffers that are no manifest: short ones and ones with a damaged magic
RawBuffers(good) ==
    {[NoJson EXCEPT !.buf = SubSeq(good, 1, k)] : k \in 0..5}
    \cup {[NoJson EXCEPT !.buf = [good EXCEPT ![i] = b]] :
            i \in 1..4, b \in {0, 13, 123}}
    \cup {[NoJson EXCEPT !.buf = <<123>> \o Repeat(32, n)] : n \in 0..5}

RawInputs == RawBuffers(GoodBuffer(EncPayload(BasePayload), 41, 0, TRUE, 3))

\* the text of the k-th guid of a JSON document, in one of the forms
\* Uuid::from_str takes ("lower", "upper", "hyphen") or in none ("bad")
JsonGuidText(k, form) ==
    LET lower == Flatten(Repeat(<<97, 48 + k>>, 16))
        upper == Flatten(Repeat(<<65, 48 + k>>, 16))
    IN  CASE form = "lower" -> lower
          [] form = "upper" -> upper
          [] form = "hyphen" -> SubSeq(lower, 1, 8) \o <<45>> \o SubSeq(lower, 9, 12) \o <<45>>
                                \o SubSeq(lower, 13, 16) \o <<45>> \o SubSeq(lower, 17, 20)
                                \o <<45>> \o SubSeq(lower, 21, 32)
          [] form = "bad" -> SubSeq(lower, 1, 31) \o <<103>>

GoodFileHash == Flatten(Repeat(<<48, 48, 49>>, 20))

\* FileHash texts: well formed, one byte short, a group above 255, and 60
\* bytes with a two-byte character across the end of the first group
FileHashTexts ==
    {GoodFileHash,
     SubSeq(GoodFileHash, 1, 59),
     <<50, 53, 54>> \o SubSeq(GoodFileHash, 4, 60),
     <<48, 48, 195, 169>> \o SubSeq(GoodFileHash, 5, 60)}

\* the j-th part of the i-th file of a JSON document
JsonPartSpec(i, j, form, size) ==
    [guid |-> JsonGuidText(1 + ((i + j) % 2), form),
     offset |-> DecString(j),
     size |-> size]

JsonFileSpec(i, nparts, form, size, hash) ==
    [filename |-> <<102, 48 + i>>,
     file_hash |-> hash,
     unix |-> IF i % 2 = 0 THEN Some(TRUE) ELSE None,
     parts |-> [j \in 1..nparts |-> JsonPartSpec(i, j, form, size)]]

BaseDoc ==
    [keys |-> RequiredKeys, typed |-> TRUE, version |-> <<51>>, app_id |-> <<48>>,
     app_name |-> <<65>>, build_version |-> <<49>>, launch_exe |-> <<>>,
     files |-> <<JsonFileSpec(1, 1, "lower", <<53>>, GoodFileHash)>>]

\* Size texts: 5, 2^32 + 5, and a text that is no number
SizeTexts == {<<53>>, <<52, 50, 57, 52, 57, 54, 55, 51, 48, 49>>, <<120>>}

\* ManifestFileVersion texts: "3", "0123456789", "v1", and a text longer than
\* 8 bytes whose last 8 bytes start inside a two-byte character
VersionTexts ==
    {<<51>>, <<48, 49, 50, 51, 52, 53, 54, 55, 56, 57>>, <<118, 49>>,
     <<195, 169, 49, 50, 51, 52, 53, 54, 55>>}

JsonDocs ==
    {[BaseDoc EXCEPT !.keys = ks] :
        ks \in {{}, {"ManifestFileVersion"}, {"FileManifestList"},
                RequiredKeys \ {"FileManifestList"},
                RequiredKeys \ {"ManifestFileVersion"},
                {"ManifestFileVersion", "FileManifestList"}, RequiredKeys}}
    \cup {[BaseDoc EXCEPT !.typed = FALSE]}
    \cup {[BaseDoc EXCEPT !.version = v] : v \in VersionTexts}
    \cup {[BaseDoc EXCEPT !.app_id = a] :
            a \in {<<48>>, <<52, 50, 57, 52, 57, 54, 55, 50, 57, 53>>, <<45, 49>>}}
    \cup {[BaseDoc EXCEPT !.files =
             [i \in 1..f |-> JsonFileSpec(i, n, form, <<53>>, GoodFileHash)]] :
            f \in 0..MaxFiles, n \in 0..MaxParts,
            form \in {"lower", "upper", "hyphen", "bad"}}
    \cup {[BaseDoc EXCEPT !.files = <<JsonFileSpec(1, 1, "lower", sz, h)>>] :
            sz \in SizeTexts, h \in FileHashTexts}

\* the text of a document, its key names shortened to their first letter and
\* its values to 0: {} for the empty object, {"M":0,"F":0} and so on
JsonText(doc) ==
    LET key(k, c) == IF k \in doc.keys THEN <<34, c, 34, 58, 48, 44>> ELSE <<>>
        inner == key("ManifestFileVersion", 77) \o key("bIsFileData", 98)
                 \o key("AppID", 65) \o key("FileManifestList", 70)
    IN  <<123>> \o (IF inner = <<>> THEN <<>> ELSE SubSeq(inner, 1, Len(inner) - 1))
        \o <<125>>

JsonInputs == {[buf |-> JsonText(d), json |-> Some(d)] : d \in JsonDocs}

Inputs ==
    PayloadInputs \cup DamagedInputs \cup UnflaggedInputs \cup HeaderInputs
    \cup RawInputs \cup JsonInputs

\* a debug build checks integer overflow, a release build wraps
Builds == {"debug", "release"}

InitWith(in, bld) ==
    /\ buf = in.buf
    /\ json = in.json
    /\ build = bld
    /\ pc = "sniff"
    /\ rdpos = 0
    /\ header = EmptyHeader
    /\ slice = <<>>
    /\ payload = <<>>
    /\ warned = FALSE
    /\ cur = 0
    /\ meta = None
    /\ chunk_list = None
    /\ file_list = None
    /\ result = NoResult
    /\ rd = NoReader
    /\ last = NoOp

Init == \E in \in Inputs, bld \in Builds : InitWith(in, bld)

NextBinary ==
    \/ Sniff
    \/ ReadHeader
    \/ FramePayload
    \/ RejectEncrypted
    \/ DecompressPayload
    \/ CheckSha
    \/ ReadMeta
    \/ ReadChunkList
    \/ ReadFileList

Next == NextBinary \/ JsonDecode \/ Serialise

Spec == Init /\ [][Next]_vars

\* The decode of every truncation of a valid binary buffer: the buffers of
\* ValidBuffers cut to their first k bytes, for every k.
ValidPayloads ==
    {[meta |-> m, chunks |-> MaxChunks, ver |-> 2,
      files |-> [i \in 1..MaxFiles |->
                   [declared |-> MaxParts,
                    recs |-> [j \in 1..MaxParts |-> Rec(j, 1)]]]] :
        m \in {"v1", "pad"}}

\* valid buffers, with and without bytes after the payload
ValidBuffers ==
    {GoodBuffer(EncPayload(ps), hl, flags, TRUE, 3) \o extra :
        ps \in ValidPayloads, hl \in {37, 41}, flags \in {0, 1},
        extra \in {<<>>, <<0, 0>>}}

Truncations(b) == {SubSeq(b, 1, k) : k \in 0..Len(b)}

TruncInputs ==
    {[NoJson EXCEPT !.buf = t] : t \in UNION {Truncations(b) : b \in ValidBuffers}}

InitTrunc == \E in \in TruncInputs, bld \in Builds : InitWith(in, bld)

SpecTrunc == InitTrunc /\ [][NextBinary]_vars

\* ------------------------------------------------------ the reader alone
\* The methods of ReadExt and the LimitedReader, applied one after another to
\* a reader over a small byte sequence.  rd is the reader, last the operation
\* applied last: its name, the reader before it, and what it returned.  The
\* variables of the decode stay as InitWith leaves them.

\* the byte sequences read: 1, 2, .., n
ReaderLengths == {0, 1, 3, 5, 9, 18}

ReaderData == {[i \in 1..n |-> i] : n \in ReaderLengths}

\* the limits LimitedReader::new is given for data of length n
ReaderLimits(n) == {0, 2, n, n + 3}

\* the counts asked of read and read_bytes_tolerant
MaxRead == 5

\* the fixed-width reads of ReadExt; the decode uses the first four
DecodedKinds == {"u8", "u32", "i32", "u64"}

PrimitiveKinds == DecodedKinds \cup {"i8", "i16", "u16", "i64", "f32", "f64"}

\* the width in bytes of a primitive
Width(kind) ==
    CASE kind \in {"u8", "i8"} -> 1
      [] kind \in {"i16", "u16"} -> 2
      [] kind \in {"u32", "i32", "f32"} -> 4
      [] kind \in {"u64", "i64", "f64"} -> 8

\* a primitive read: the value for the kinds the decode uses, the bytes of
\* the value for the others
ReadKind(r, kind) ==
    IF kind \in DecodedKinds THEN ReadField(r, kind) ELSE ReadFixed(r, Width(kind))

decodeVars ==
    <<buf, json, build, pc, rdpos, header, slice, payload, warned, cur, meta,
      chunk_list, file_list, result>>

\* what an operation on the reader left behind
Done(op, n, res) ==
    [op |-> op, n |-> n, before |-> rd, ok |-> res.ok, err |-> res.err,
     out |-> res.v]

InitReader ==
    /\ buf = <<>>
    /\ json = None
    /\ build \in Builds
    /\ pc = "reader"
    /\ rdpos = 0
    /\ header = EmptyHeader
    /\ slice = <<>>
    /\ payload = <<>>
    /\ warned = FALSE
    /\ cur = 0
    /\ meta = None
    /\ chunk_list = None
    /\ file_list = None
    /\ result = NoResult
    /\ rd \in {Cursor(d, 0) : d \in ReaderData}
              \cup UNION {{LimitedNew(d, l) : l \in ReaderLimits(Len(d))} : d \in ReaderData}
    /\ last = NoOp

\* one of the fixed-width reads of ReadExt
ReadPrimitive ==
    /\ pc = "reader"
    /\ \E kind \in PrimitiveKinds :
          \E res \in {ReadKind(rd, kind)} :
              /\ rd' = res.r
              /\ last' = Done(kind, Width(kind), res)
    /\ UNCHANGED decodeVars

\* read_bytes_tolerant(n)
ReadTolerant ==
    /\ pc = "reader"
    /\ \E n \in 0..MaxRead :
          \E got \in {ReadBytesTolerant(rd, n)} :
              /\ rd' = got.r
              /\ last' = Done("bytes", n, Ok(got.bytes, got.r))
    /\ UNCHANGED decodeVars

\* the 16-byte identifier of a chunk, as ChunkDataList::read and
\* ChunkPart::read take it
ReadIdentifier ==
    /\ pc = "reader"
    /\ \E res \in {ReadGuid(rd)} :
          /\ rd' = res.r
          /\ last' = Done("guid", 16, res)
    /\ UNCHANGED decodeVars

\* one call of Read::read with a buffer of n bytes
ReadOnce ==
    /\ pc = "reader"
    /\ \E n \in 0..MaxRead :
          \E got \in {RawRead(rd, n)} :
              /\ rd' = got.r
              /\ last' = Done("read", n, Ok(got.bytes, got.r))
    /\ UNCHANGED decodeVars

\* the offsets asked of seek: small ones, i64::MAX and, for Start, u64::MAX
SeekMags == {Limbs(0), Limbs(1), Limbs(4), Limbs(32), <<65535, 65535, 65535, 32767>>}

SeekArgs ==
    {[whence |-> "Start", neg |-> FALSE, mag |-> m] :
        m \in SeekMags \cup {<<65535, 65535, 65535, 65535>>}}
    \cup {[whence |-> w, neg |-> FALSE, mag |-> m] :
            w \in {"End", "Current"}, m \in SeekMags}
    \cup {[whence |-> w, neg |-> TRUE, mag |-> m] :
            w \in {"End", "Current"}, m \in (SeekMags \ {Limbs(0)}) \cup {I64MinMag}}

\* one call of Seek::seek on a section sub-reader
SeekLimited ==
    /\ pc = "reader"
    /\ rd.kind = "limited"
    /\ \E pos \in SeekArgs :
          \E res \in {LimitedSeek(rd, pos, build)} :
              /\ rd' = res.r
              /\ last' = [op |-> "seek", n |-> 0, arg |-> pos, before |-> rd,
                          ok |-> res.ok, err |-> res.err, out |-> res.v]
    /\ UNCHANGED decodeVars

NextReader ==
    \/ ReadPrimitive
    \/ ReadTolerant
    \/ ReadIdentifier
    \/ ReadOnce
    \/ SeekLimited

SpecReader == InitReader /\ [][NextReader]_vars

\* -------------------------------------------------------------- the claims
\* the buffer went to the binary decoder and its header decoded
HeaderDecoded ==
    /\ pc \notin {"sniff", "json", "header"}
    /\ result.at \notin {"json", "header"}

\* the files of the Manifest in file_list
Files == file_list[1].file_manifest_list

\* C1 as stated: the decode of a truncated valid buffer ends with an
\* invalid-structure error or with a Manifest.
C1_TruncationInvalidOrManifest ==
    pc = "done" =>
        \/ result.kind = "ok"
        \/ result.kind = "err" /\ result.err = "Invalid"

\* C1 as amended: the decode of a valid buffer truncated to its first k bytes
\* never panics and never moves the reader outside the buffer; it ends with a
\* Manifest, with an invalid-structure error, or, when a header field is cut
\* short, with the I/O error of the header read.
C1_TruncationEndsCleanly ==
    /\ result.kind # "panic"
    /\ rdpos <= Len(buf)
    /\ pc = "done" =>
        \/ result.kind = "ok"
        \/ result.kind = "err" /\ result.err = "Invalid"
        \/ result.kind = "err" /\ result.err = "Io" /\ result.at = "header"

\* a buffer cut inside its payload was rejected by the payload framing
C1_CutInsidePayload ==
    /\ Len(buf) > 45
    /\ result = Err("Invalid", "frame")

\* C2: in a Manifest decoded from a binary buffer, every file's file_size is
\* the sum of the size fields of the chunk parts kept for it (0 without parts).
C2_FileSizeIsSumOfParts ==
    result = Success("files") =>
        \A i \in 1..Len(Files) :
            Files[i].file_size =
                SumSeq([j \in 1..Len(Files[i].chunk_parts) |->
                          Files[i].chunk_parts[j].size])

\* a Manifest with a file that kept parts and a file that kept none
C2_KeptAndEmptyFiles ==
    /\ result = Success("files")
    /\ \E i \in 1..Len(Files) :
          Len(Files[i].chunk_parts) > 0 /\ Files[i].file_size > 0
    /\ \E i \in 1..Len(Files) :
          Len(Files[i].chunk_parts) = 0 /\ Files[i].file_size = 0

\* C3: every chunk part of a returned Manifest (binary or JSON) has its
\* parent_guid among the keys of the chunk directory's lookup, and the
\* file-directory decode, which drops a part whose GUID is absent, never panics.
C3_PartsPointIntoLookup ==
    /\ result.kind = "ok" =>
        \A i \in 1..Len(Files) :
            \A j \in 1..Len(Files[i].chunk_parts) :
                Files[i].chunk_parts[j].parent_guid
                    \in DOMAIN chunk_list[1].chunk_lookup
    /\ result.at = "files" => result.kind # "panic"

\* a Manifest from a payload that holds a part record with an absent GUID
\* after a part that was kept
C3_AbsentGuidDropped ==
    /\ result = Success("files")
    /\ \E k \in 1..Len(payload) :
          /\ k + 15 <= Len(payload)
          /\ SubSeq(payload, k, k + 15) = GuidBytes(UnknownGuid)
    /\ \E i \in 1..Len(Files) : Len(Files[i].chunk_parts) > 0

\* C4: a decoded header has version 0 when its header_size is at most 37, and
\* otherwise the little-endian i32 that follows the storage-flags byte.
C4_VersionField ==
    HeaderDecoded =>
        header.version = IF header.header_size <= 37 THEN 0
                         ELSE I32(SubSeq(buf, 38, 41))

\* a header of size 38 whose version field holds -2
C4_VersionRead ==
    /\ HeaderDecoded
    /\ header.header_size = 38
    /\ header.version = -2

\* C5: a buffer not taken for JSON whose first four bytes are not the magic
\* ends with an invalid-structure error and the reader at offset 4; a buffer
\* with the magic and header_size 41 (version field present) gets past the
\* header stage.
C5_MagicGate ==
    (pc \notin {"sniff", "json", "header"} /\ result.at # "json" /\ Len(buf) >= 4) =>
        /\ SubSeq(buf, 1, 4) # <<12, 192, 190, 68>> =>
              /\ result = Err("Invalid", "header")
              /\ rdpos = 4
        /\ (/\ SubSeq(buf, 1, 4) = <<12, 192, 190, 68>>
            /\ Len(buf) >= 41
            /\ SubSeq(buf, 5, 8) = <<41, 0, 0, 0>>) =>
              /\ result.at # "header"
              /\ header.header_size = 41

\* a whole manifest with one magic byte changed was rejected at offset 4
C5_BadMagicRejected ==
    /\ Len(buf) > 41
    /\ SubSeq(buf, 2, 4) = <<192, 190, 68>>
    /\ buf[1] # 12
    /\ result = Err("Invalid", "header")
    /\ rdpos = 4

\* the buffer with its 20 header hash bytes replaced by h
WithHash(data, h) ==
    [i \in 1..Len(data) |-> IF i > 16 /\ i <= 36 THEN h[i - 16] ELSE data[i]]

\* C6: the decode never returns the integrity-mismatch error, and the outcome
\* of a binary buffer (its error, or its meta, chunk directory and file
\* directory) is the outcome of the buffer with any other header hash bytes.
C6_HashBytesAdvisory ==
    /\ result.err # "Sha1Mismatch"
    /\ (pc = "done" /\ result.at # "json" /\ Len(buf) >= 36) =>
          \A h \in {Repeat(9, 20), Repeat(0, 20)} :
              DecodeBinary(WithHash(buf, h), build)
                  = Returned(result, meta, chunk_list, file_list)

\* a Manifest returned although the header hash did not match
C6_MismatchWarned ==
    /\ result = Success("files")
    /\ warned
    /\ Len(Files) > 0

\* C7: the payload framing never panics, and the slice it yields is
\* buf[header_size .. header_size + payload_size] inside the buffer.
C7_FramingNeverPanics ==
    /\ result.at = "frame" => result.kind = "err"
    /\ pc = "encrypted" =>
          /\ header.header_size >= 0
          /\ Len(slice) >= 0
          /\ header.header_size + Len(slice) <= Len(buf)
          /\ slice = SubSeq(buf, header.header_size + 1,
                            header.header_size + Len(slice))

\* C8 as stated: a decoded header with the encrypted bit set ends the decode
\* with the encrypted-manifest error, whatever the other flags and sizes.
C8_EncryptedAlwaysRejected ==
    (HeaderDecoded /\ (header.stored_as \div 2) % 2 = 1 /\ pc = "done") =>
        result = Err("Encrypted", "encrypted")

\* C8 as amended: with the encrypted bit set the decode never goes on to the
\* payload and never returns a Manifest, and it returns the encrypted-manifest
\* error whenever the payload framing before it yields a slice.
C8_EncryptedNeverDecoded ==
    (HeaderDecoded /\ (header.stored_as \div 2) % 2 = 1) =>
        /\ result.kind # "ok"
        /\ pc \in {"frame", "encrypted", "done"}
        /\ (pc = "done" /\ result.at # "frame") =>
              result = Err("Encrypted", "encrypted")

\* a header with both flag bits set was rejected as encrypted
C8_BothBitsRejected ==
    /\ header.stored_as = 3
    /\ result = Err("Encrypted", "encrypted")

\* C9 as stated: a JSON object without FileManifestList is not taken for the
\* JSON variant and fails the binary decoder's magic check as invalid.
C9_NoFileListInvalid ==
    (IsSome(json) /\ "FileManifestList" \notin json[1].keys) =>
        /\ pc # "json"
        /\ pc = "done" => result = Err("Invalid", "header")

\* C9 as amended: such an object is not taken for the JSON variant and fails
\* in the binary header: as invalid at the magic check when it has four bytes
\* or more, with the I/O error of the magic read when it is shorter.
C9_NoFileListFailsInHeader ==
    (IsSome(json) /\ "FileManifestList" \notin json[1].keys) =>
        /\ pc # "json"
        /\ pc = "done" =>
              /\ result.kind = "err"
              /\ result.at = "header"
              /\ Len(buf) >= 4 => result.err = "Invalid" /\ rdpos = 4
              /\ Len(buf) < 4 => result.err = "Io"

\* the empty object {} failed with the I/O error of the magic read
C9_EmptyObjectIo ==
    /\ IsSome(json)
    /\ buf = <<123, 125>>
    /\ result = Err("Io", "header")

\* C10: the decode never ends at the metadata stage; when read_meta fails the
\* chunk directory and the file directory are attempted with meta absent, and
\* when both decode the result is a Manifest.
C10_MetaFailureRecovered ==
    /\ result.at # "meta"
    /\ (/\ pc \in {"chunks", "files"} \/ result.at \in {"chunks", "files"}
        /\ ~MetaRead(Cursor(payload, 0)).ok) =>
          /\ meta = None
          /\ (pc = "done" /\ IsSome(chunk_list) /\ IsSome(file_list)) =>
                result = Success("files")

\* a Manifest with meta absent and a file directory with files
C10_ManifestWithoutMeta ==
    /\ result = Success("files")
    /\ ~MetaRead(Cursor(payload, 0)).ok
    /\ meta = None
    /\ Len(Files) > 0

\* the payload offset at which the chunk directory decode begins: where the
\* metadata stage left the cursor
ChunkStart == MetaOutcome(MetaRead(Cursor(payload, 0)), 0).r.position

\* the chunk directory's window (the bytes after its length field that the
\* limited reader serves) and the count it declares
ChunkWindow ==
    ReadBytesTolerant(ReadU32(Cursor(payload, ChunkStart)).r,
        AdjustedSize(Val(ReadU32(Cursor(payload, ChunkStart))))).bytes

ChunkDeclaredCount == U32(SubSeq(ChunkWindow, 2, 5))

\* the chunk directory holds fewer bytes than the columns of its count take
\* (57 bytes a chunk after the version and the count)
ShortChunkSection ==
    /\ Len(payload) >= ChunkStart + 4
    /\ ~BadSectionSize(Val(ReadU32(Cursor(payload, ChunkStart))))
    /\ Len(ChunkWindow) >= 5
    /\ ChunkDeclaredCount <= MAX_COUNT
    /\ Len(ChunkWindow) < 5 + 57 * ChunkDeclaredCount

\* the file directory was cut inside its columns
ShortFileSection == payload \in CutFilePayloads

\* C11 as stated: when the chunk directory or the file directory holds fewer
\* bytes than its columns need, the decode returns no error but a Manifest
\* (the shortfall is only logged).
C11_ShortSectionTolerated ==
    (/\ pc = "done"
     /\ \/ result.at = "chunks" /\ ShortChunkSection
        \/ result.at = "files" /\ ShortFileSection) =>
        result = Success("files")

\* the fields of a decoded part that its record determines
PartFields(part) ==
    [guid |-> part.parent_guid, offset |-> part.offset, size |-> part.size]

\* what the first n records of recs decode to
DecodedRecs(recs, n) ==
    [k \in 1..n |-> [guid |-> GuidString(GuidBytes(recs[k].g)),
                     offset |-> recs[k].offset, size |-> recs[k].size]]

\* the payloads of PayloadSpecs in which a record names a GUID the chunk
\* directory does not hold: file is the first file with such a record and
\* kept the number of its records before it
AbsentGuidCases ==
    {[payload |-> EncPayload(c.ps), file |-> c.i,
      parts |-> DecodedRecs(c.ps.files[c.i].recs, c.j)] :
        c \in {c \in [ps : PayloadSpecs, i : 1..MaxFiles, j : 0..(MaxParts - 1)] :
                 /\ c.ps.meta = "v1"
                 /\ c.i <= Len(c.ps.files)
                 /\ \A f \in 1..(c.i - 1) :
                       \A k \in 1..Len(c.ps.files[f].recs) :
                           c.ps.files[f].recs[k].g <= c.ps.chunks
                 /\ c.j < Len(c.ps.files[c.i].recs)
                 /\ c.ps.files[c.i].recs[c.j + 1].g > c.ps.chunks
                 /\ \A k \in 1..c.j : c.ps.files[c.i].recs[k].g <= c.ps.chunks}}

\* the length of the five columns that precede the chunk-part pass
ColumnsLen ==
    Len(EncFileBody(0, [i \in 1..Len(DamagedFiles) |-> [declared |-> 0, recs |-> <<>>]],
                    Len(DamagedFiles))) - 4 * Len(DamagedFiles)

\* the offset in the body of DamagedFiles at which record j + 1 of file i
\* begins
RecordStart(i, j) ==
    ColumnsLen + SumSeq([f \in 1..(i - 1) |-> 4 + 28 * Len(DamagedFiles[f].recs)])
    + 4 + 28 * j

\* the payloads of CutFilePayloads whose section ends inside a record (off
\* bytes of it are left)
CutRecordCases ==
    {[payload |-> EncMeta("v1") \o EncChunkList(Len(DamagedGuids))
                  \o CutFileList(c.ver, RecordStart(c.i, c.j) + c.off),
      file |-> c.i,
      parts |-> DecodedRecs(DamagedFiles[c.i].recs, c.j)] :
        c \in {c \in [ver : {0, 2}, i : 1..Len(DamagedFiles), j : 0..1, off : 0..27] :
                 c.j < Len(DamagedFiles[c.i].recs)}}

\* C12 as stated: when a file's j-th chunk-part record (counted from 0) fails
\* to decode, because its GUID is absent from the lookup or because the
\* record is cut short, the decode still returns a Manifest and the file's
\* chunk_parts are the j parts decoded before it, in order.
C12_FailedPartKeepsPrefix ==
    \A c \in AbsentGuidCases \cup CutRecordCases :
        (pc = "done" /\ result.at = "files" /\ payload = c.payload) =>
            /\ result = Success("files")
            /\ c.file <= Len(Files)
            /\ Files[c.file].chunk_parts # <<>> \/ c.parts = <<>>
            /\ [k \in 1..Len(Files[c.file].chunk_parts) |->
                   PartFields(Files[c.file].chunk_parts[k])] = c.parts

\* C13 as stated: the decode is a function of the input bytes.  Every
\* invocation on the same bytes returns the same error or the same Manifest:
\* a binary buffer gives what the one decode function gives, and a JSON
\* document gives the same header, meta, chunk directory (elements in the
\* same order, the same lookup indices) and file directory whatever the
\* invocation.
C13_SameBytesSameResult ==
    pc = "done" =>
        IF result.at = "json"
        THEN result.kind = "ok" =>
                \A order \in Orders(UniqueChunks(json[1])) :
                    ToManifest(json[1], order) =
                        [header |-> header, meta |-> meta,
                         chunk_list |-> chunk_list, file_list |-> file_list]
        ELSE DecodeBinary(buf, build) =
                Returned(result, meta, chunk_list, file_list)

\* C14: every Manifest returned has its chunk directory and its file
\* directory present, each with a count field equal to the number of its
\* entries, and a Manifest of the JSON path has meta present as well.
C14_ListsPresentAndCounted ==
    result.kind = "ok" =>
        /\ IsSome(chunk_list)
        /\ IsSome(file_list)
        /\ chunk_list[1].count = Len(chunk_list[1].elements)
        /\ file_list[1].count = Len(Files)
        /\ result.at = "json" => IsSome(meta)

\* a Manifest of the binary path with chunks, with a file that kept parts and
\* a file that kept none
C14_CountedBinaryManifest ==
    /\ result = Success("files")
    /\ chunk_list[1].count > 0
    /\ file_list[1].count > 1
    /\ \E i \in 1..Len(Files) : Files[i].chunk_parts = <<>>
    /\ \E i \in 1..Len(Files) : Files[i].chunk_parts # <<>>

\* a FileHash text that is not 60 bytes of 20 decimal byte values
MalformedFileHash(t) ==
    Len(t) # 60 \/ \E i \in 1..20 : ~IsSome(ParseU8(SubSeq(t, 3 * i - 2, 3 * i)))

\* a document with a file record that holds a malformed Guid, FileHash,
\* Offset or Size
MalformedFileRecord(doc) ==
    \E i \in 1..Len(doc.files) :
        \/ MalformedFileHash(doc.files[i].file_hash)
        \/ \E j \in 1..Len(doc.files[i].parts) :
              \/ ~IsSome(ParseGuid(doc.files[i].parts[j].guid))
              \/ ~IsSome(ParseU64(doc.files[i].parts[j].offset))
              \/ ~IsSome(ParseU64(doc.files[i].parts[j].size))

\* C15 as stated: in the JSON path a file record with a malformed Guid,
\* FileHash, Offset or Size makes the decode return the invalid-structure
\* error: no Manifest, and no panic.
C15_MalformedRecordInvalid ==
    (/\ pc = "done"
     /\ result.at = "json"
     /\ FromStrOk(json[1])
     /\ MalformedFileRecord(json[1])) =>
        result = Err("Invalid", "json")

\* the canonical GUIDs the chunk parts of a document refer to
ReferencedGuids(doc) ==
    UNION {{ParseGuid(doc.files[i].parts[j].guid)[1] :
              j \in 1..Len(doc.files[i].parts)} : i \in 1..Len(doc.files)}

\* C16: the chunk directory of a Manifest of the JSON path holds one Chunk
\* for each distinct canonical GUID its files' chunk parts refer to and no
\* other; each has window_size 1048576 and file_size "1048576", and its hash
\* and sha_hash are the values derived from its GUID alone.
C16_SynthesizedChunks ==
    result = Success("json") =>
        /\ {chunk_list[1].elements[i].guid : i \in 1..Len(chunk_list[1].elements)}
              = ReferencedGuids(json[1])
        /\ Len(chunk_list[1].elements) = Cardinality(ReferencedGuids(json[1]))
        /\ \A i \in 1..Len(chunk_list[1].elements) :
              /\ chunk_list[1].elements[i].window_size = 1048576
              /\ chunk_list[1].elements[i].file_size = <<49, 48, 52, 56, 53, 55, 54>>
              /\ chunk_list[1].elements[i].hash
                    = generate_hash_from_guid(chunk_list[1].elements[i].guid)
              /\ chunk_list[1].elements[i].sha_hash
                    = generate_sha_hash_from_guid(chunk_list[1].elements[i].guid)

\* a Manifest of the JSON path whose hyphenated GUID texts name two chunks,
\* each more than once
C16_TwoChunksFromFourParts ==
    /\ result = Success("json")
    /\ Len(chunk_list[1].elements) = 2
    /\ Len(AllGuidTexts(json[1])) = 4
    /\ Len(AllGuidTexts(json[1])[1]) = 36

\* C17: in every decoded chunk directory (binary or JSON) the lookup is the
\* one rebuilt by inserting each element's guid with its index, in order:
\* every element's guid is a key, every entry (g, i) has the guid g at index
\* i, and i is the last index that holds g.
C17_LookupRebuilt ==
    IsSome(chunk_list) =>
        /\ \A k \in 1..Len(chunk_list[1].elements) :
              /\ chunk_list[1].elements[k].guid \in DOMAIN chunk_list[1].chunk_lookup
              /\ k - 1 <= chunk_list[1].chunk_lookup[chunk_list[1].elements[k].guid]
        /\ \A g \in DOMAIN chunk_list[1].chunk_lookup :
              /\ chunk_list[1].chunk_lookup[g] < Len(chunk_list[1].elements)
              /\ chunk_list[1].elements[chunk_list[1].chunk_lookup[g] + 1].guid = g

\* a Manifest whose chunk directory holds one guid at two indices
C17_RepeatedGuidDecoded ==
    /\ result = Success("files")
    /\ \E i, j \in 1..Len(chunk_list[1].elements) :
          i < j /\ chunk_list[1].elements[i].guid = chunk_list[1].elements[j].guid

\* the payload without the bytes at and after offset n
PayloadBefore(n) == SubSeq(payload, 1, Min(n, Len(payload)))

\* the length a section that starts at offset start declares (0 when the
\* payload ends inside the length field)
DeclaredLength(start) ==
    IF Len(payload) >= start + 4 THEN U32(SubSeq(payload, start + 1, start + 4)) ELSE 0

\* two section decodes that return the same error or the same value
SameOutcome(a, b) ==
    /\ a.ok = b.ok
    /\ a.ok => Val(a) = Val(b)
    /\ ~a.ok => a.err = b.err

\* the payload offset at which the file directory decode begins
FileStart == ChunkListRead(Cursor(payload, ChunkStart)).r.position

\* C18 as stated: no field decode of the metadata, the chunk directory or the
\* file directory reads a payload byte at or beyond section_start + declared
\* length.  Whatever bytes follow the section, each section decodes as it
\* does on the payload that ends at its declared boundary.
C18_ReadsStayInSection ==
    (pc = "done" /\ result.at \in {"chunks", "files"}) =>
        /\ DeclaredLength(0) >= 4 =>
              SameOutcome(MetaRead(Cursor(payload, 0)),
                          MetaRead(Cursor(PayloadBefore(DeclaredLength(0)), 0)))
        /\ DeclaredLength(ChunkStart) >= 4 =>
              SameOutcome(ChunkListRead(Cursor(payload, ChunkStart)),
                          ChunkListRead(Cursor(
                              PayloadBefore(ChunkStart + DeclaredLength(ChunkStart)),
                              ChunkStart)))
        /\ (result.at = "files" /\ DeclaredLength(FileStart) >= 9) =>
              SameOutcome(FileListRead(Cursor(payload, FileStart), chunk_list[1]),
                          FileListRead(Cursor(
                              PayloadBefore(FileStart + DeclaredLength(FileStart)),
                              FileStart), chunk_list[1]))

\* C19 as stated: whether read_meta succeeds or fails, the chunk directory
\* decode begins at the payload offset metadata_section_start (0) + the
\* declared length of the metadata section.
C19_ChunksBeginAtDeclaredEnd ==
    (pc = "chunks" /\ Len(payload) >= 4) => cur = DeclaredLength(0)

\* the offsets of the slice at which byte 0x78 is followed by 0x01, 0x9C or
\* 0xDA
SignatureOffsets ==
    {i \in 0..(Len(slice) - 2) : slice[i + 1] = 120 /\ slice[i + 2] \in {1, 156, 218}}

\* C20 as stated: for a slice flagged compressed, of any length, the
\* signature scan ends without indexing outside the slice (no panic);
\* decompression starts at the first offset where 0x78 is followed by 0x01,
\* 0x9C or 0xDA, a corrupt stream there yielding the decompression error;
\* and when there is no such offset the slice is the payload unchanged.
C20_ScanStaysInSlice ==
    (/\ HeaderDecoded
     /\ is_compressed(header)
     /\ pc = "sha" \/ (pc = "done" /\ result.at = "decompress")) =>
        /\ result.kind # "panic"
        /\ SignatureOffsets = {} => (pc = "sha" /\ payload = slice)
        /\ \A i \in SignatureOffsets :
              (\A j \in SignatureOffsets : i <= j) =>
                 IF Inflate(SubSeq(slice, i + 1, Len(slice))).ok
                 THEN pc = "sha"
                      /\ payload = Inflate(SubSeq(slice, i + 1, Len(slice))).data
                 ELSE result = Err("Inflate", "decompress")

\* C21 as stated: for a slice whose header says uncompressed, of any length,
\* when bytes 9 and 10 are 0x78 and one of 0x01, 0x9C, 0xDA the payload is
\* the decompression of the slice from offset 9 (or the decompression error
\* when that stream is corrupt); in every other case, slices of 10 bytes or
\* fewer included, the payload is the slice unchanged, with no error and no
\* panic.
C21_UnflaggedPassThrough ==
    (/\ HeaderDecoded
     /\ ~is_compressed(header)
     /\ pc = "sha" \/ (pc = "done" /\ result.at = "decompress")) =>
        IF Len(slice) >= 11 /\ slice[10] = 120 /\ slice[11] \in {1, 156, 218}
        THEN IF Inflate(SubSeq(slice, 10, Len(slice))).ok
             THEN pc = "sha" /\ payload = Inflate(SubSeq(slice, 10, Len(slice))).data
             ELSE result = Err("Inflate", "decompress")
        ELSE pc = "sha" /\ payload = slice

\* the bytes that remain in a reader
Remaining(r) ==
    IF r.kind = "limited"
    THEN (IF r.limit > r.position THEN r.limit - r.position ELSE 0)
    ELSE Len(r.data) - Min(r.position, Len(r.data))

\* the next n bytes of a reader, or as many as remain
Available(r, n) ==
    SubSeq(r.data, Min(r.position, Len(r.data)) + 1,
           Min(r.position, Len(r.data)) + Min(n, Remaining(r)))

\* C22 as stated: a fixed-width primitive read with fewer bytes left than
\* its width returns what is available and raises no I/O error.
C22_PrimitivesTolerant ==
    (last.op \in PrimitiveKinds /\ Remaining(last.before) < last.n) => last.ok

\* C22 as amended: a fixed-width primitive read with fewer bytes left than
\* its width consumes what is left and raises the unexpected-end-of-input
\* I/O error, and succeeds otherwise; read_bytes_tolerant returns what is
\* available without an error; the 16-byte identifier built on it reports a
\* decode error on a short count.
C22_PrimitivesStrict ==
    /\ last.op \in PrimitiveKinds =>
          /\ last.ok <=> Remaining(last.before) >= last.n
          /\ ~last.ok => last.err = "Io" /\ last.out = <<>>
          /\ rd.position = last.before.position + Min(last.n, Remaining(last.before))
          /\ (last.ok /\ last.op = "u8") => last.out[1] = Available(last.before, 1)[1]
    /\ last.op = "bytes" =>
          /\ last.ok
          /\ last.out[1] = Available(last.before, last.n)
    /\ last.op = "guid" =>
          /\ last.ok <=> Remaining(last.before) >= 16
          /\ ~last.ok => last.err = "Invalid"

\* a u32 read with one to three bytes left failed and consumed them
C22_ShortU32Failed ==
    /\ last.op = "u32"
    /\ Remaining(last.before) \in 1..3
    /\ ~last.ok
    /\ Remaining(rd) = 0

\* the payloads with a file whose declared chunk-part count is over the cap:
\* file is its index
OverCapCases ==
    {[payload |-> EncPayload(c.ps), file |-> c.i] :
        c \in {c \in [ps : PayloadSpecs, i : 1..MaxFiles] :
                 /\ c.i <= Len(c.ps.files)
                 /\ c.ps.files[c.i].declared > MAX_CHUNK_PARTS}}
    \cup {[payload |-> EncMeta("v1") \o EncChunkList(1) \o EncFileList(c.ver, c.fs),
           file |-> c.i] :
            c \in {c \in [ver : {0, 2}, fs : OverCapFiles, i : 1..2] :
                     c.fs[c.i] = OverCapPattern}}

FileVersionByte == payload[FileStart + 5]

\* the file directory as decoded without the version-2 passes: the read of
\* the same payload with the directory's version set to 0
BeforePasses ==
    FileListRead(Cursor([payload EXCEPT ![FileStart + 5] = 0], FileStart), chunk_list[1])

\* the files decoded, with their MIME types blanked
FilesWithoutMime == [i \in 1..Len(Files) |-> [Files[i] EXCEPT !.mime_type = <<>>]]

\* C24: for a file directory of version 2 or higher the three trailing passes
\* change nothing but mime_type: whether they complete or stop early, the
\* read returns the file directory whenever the decode before the passes
\* does, with every other field of every file as decoded before them.
C24_PassesTouchOnlyMime ==
    (/\ pc = "done"
     /\ result.at = "files"
     /\ Len(payload) >= FileStart + 5
     /\ FileVersionByte \in 2..MAX_FILE_VERSION) =>
        /\ BeforePasses.ok <=> result = Success("files")
        /\ BeforePasses.ok => FilesWithoutMime = Val(BeforePasses).file_manifest_list

\* a version-2 directory cut inside its second MIME type: the first file got
\* its MIME type, the second did not, and both kept their parts
C24_PassesStoppedEarly ==
    /\ result = Success("files")
    /\ payload \in CutFilePayloads
    /\ FileVersionByte = 2
    /\ Len(Files) = 2
    /\ Files[1].mime_type # <<>>
    /\ Files[2].mime_type = <<>>
    /\ Files[1].chunk_parts # <<>>
    /\ Files[2].chunk_parts # <<>>

\* C25 as stated: every ChunkPart of a returned Manifest, of binary or of
\* JSON origin, carries a copy of its parent Chunk: the element of the chunk
\* directory at index chunk_lookup[parent_guid], with all of its columns.
C25_PartsCarryParent ==
    result.kind = "ok" =>
        \A i \in 1..Len(Files) :
            \A k \in 1..Len(Files[i].chunk_parts) :
                /\ Files[i].chunk_parts[k].parent_guid \in DOMAIN chunk_list[1].chunk_lookup
                /\ Files[i].chunk_parts[k].chunk =
                      Some(chunk_list[1].elements[
                          chunk_list[1].chunk_lookup[Files[i].chunk_parts[k].parent_guid] + 1])

\* the sum of two numbers given by their limbs
AddLimbs(a, b) ==
    <<(a[1] + b[1]) % Limb,
      (a[2] + b[2] + (a[1] + b[1]) \div Limb) % Limb,
      (a[3] + b[3] + (a[2] + b[2] + (a[1] + b[1]) \div Limb) \div Limb) % Limb,
      a[4] + b[4]
        + (a[3] + b[3] + (a[2] + b[2] + (a[1] + b[1]) \div Limb) \div Limb) \div Limb>>

\* the sum of the decimal Size values of the first n parts of a JSON file
RECURSIVE SizeSum(_, _)
SizeSum(parts, n) ==
    IF n = 0 THEN Limbs(0)
    ELSE AddLimbs(SizeSum(parts, n - 1), ParseU64(parts[n].size)[1])

\* C26 as stated: in the JSON path every file's file_size is the arithmetic
\* sum of the decimal Size values of its parts, and every part's offset and
\* size are the decimal Offset and Size values, for every value the parser
\* accepts, those of 2^32 or more included.
C26_JsonSizesExact ==
    result = Success("json") =>
        \A i \in 1..Len(Files) :
            /\ Limbs(Files[i].file_size)
                  = SizeSum(json[1].files[i].parts, Len(json[1].files[i].parts))
            /\ \A j \in 1..Len(Files[i].chunk_parts) :
                  /\ Limbs(Files[i].chunk_parts[j].offset)
                        = ParseU64(json[1].files[i].parts[j].offset)[1]
                  /\ Limbs(Files[i].chunk_parts[j].size)
                        = ParseU64(json[1].files[i].parts[j].size)[1]

\* the bytes the file directory's limited reader serves, and the count the
\* directory declares
FileWindow ==
    ReadBytesTolerant(Cursor(payload, FileStart + 9), DeclaredLength(FileStart)).bytes

FileDeclaredCount == U32(SubSeq(payload, FileStart + 6, FileStart + 9))

\* the section reader, over the window w, as the chunk-part pass finds it
PartsBegin(w) ==
    ReadColumns(LimitedNew(w, Len(w)), FileDeclaredCount, FileKinds, <<>>).r

\* the position of the section cursor after the chunk-part pass, begun with
\* reader r0, has done the first k files
PartsCursor(r0, k) == ReadFileParts(r0, k, chunk_list[1], <<>>).r.position

\* the file, whose count is at offset before of the window w, decoded every
\* part it declares
AllPartsValid(w, before, file) ==
    /\ U32(SubSeq(w, before + 1, before + 4)) <= MAX_CHUNK_PARTS
    /\ U32(SubSeq(w, before + 1, before + 4)) = Len(file.chunk_parts)

\* a file with all its n parts valid moved the cursor by 4 + width * n
Advanced(w, before, after, file, width) ==
    AllPartsValid(w, before, file) =>
        after = before + 4 + width * Len(file.chunk_parts)

\* C27 as stated: a successfully decoded chunk-part record takes 24 bytes of
\* the section, so a file with n valid parts advances the section cursor by
\* 4 + 24 * n bytes.
C27_RecordIs24Bytes ==
    result = Success("files") =>
        \A i \in 1..Len(Files) :
            Advanced(FileWindow, PartsCursor(PartsBegin(FileWindow), i - 1),
                     PartsCursor(PartsBegin(FileWindow), i), Files[i], 24)

\* the part a 28-byte record at offset o of the window w decodes to
RecordAt(w, o) ==
    [data_size |-> U32(SubSeq(w, o + 1, o + 4)),
     guid |-> GuidString(SubSeq(w, o + 5, o + 20)),
     offset |-> U32(SubSeq(w, o + 21, o + 24)),
     size |-> U32(SubSeq(w, o + 25, o + 28))]

\* the parts of a file with all its parts valid are what the 28-byte records
\* behind its count hold
RecordsHeld(w, before, file) ==
    AllPartsValid(w, before, file) =>
        \A j \in 1..Len(file.chunk_parts) :
            RecordAt(w, before + 4 + 28 * (j - 1)) =
                [data_size |-> file.chunk_parts[j].data_size,
                 guid |-> file.chunk_parts[j].parent_guid,
                 offset |-> file.chunk_parts[j].offset,
                 size |-> file.chunk_parts[j].size]

PartPassOf28(w, r0) ==
    \A i \in 1..Len(Files) :
        /\ Advanced(w, PartsCursor(r0, i - 1), PartsCursor(r0, i), Files[i], 28)
        /\ RecordsHeld(w, PartsCursor(r0, i - 1), Files[i])

\* C27 as amended: a successfully decoded chunk-part record takes 28 bytes of
\* the section, holding its own size field (data_size), the parent GUID, the
\* offset and the size, so a file with n valid parts advances the section
\* cursor by 4 + 28 * n bytes.
C27_RecordIs28Bytes ==
    result = Success("files") => PartPassOf28(FileWindow, PartsBegin(FileWindow))

\* a file that declared two parts and decoded both, 60 bytes of the section
C27_TwoValidParts ==
    /\ result = Success("files")
    /\ Len(Files) >= 1
    /\ Len(Files[1].chunk_parts) = 2
    /\ AllPartsValid(FileWindow, PartsCursor(PartsBegin(FileWindow), 0), Files[1])
    /\ PartsCursor(PartsBegin(FileWindow), 1) - PartsCursor(PartsBegin(FileWindow), 0) = 60

\* the payloads in which one file (file) has a record that names an absent
\* GUID or a count over the cap, while every record of the other files is
\* sound: files are the file lists written
FailedFileCases ==
    {[payload |-> EncPayload(c.ps), file |-> c.i, files |-> c.ps.files] :
        c \in {c \in [ps : PayloadSpecs, i : 1..MaxFiles] :
                 /\ c.ps.meta = "v1"
                 /\ c.ps.chunks >= 1
                 /\ c.i <= Len(c.ps.files)
                 /\ \/ c.ps.files[c.i].declared > MAX_CHUNK_PARTS
                    \/ \E k \in 1..Len(c.ps.files[c.i].recs) :
                          c.ps.files[c.i].recs[k].g > c.ps.chunks
                 /\ \A f \in (1..Len(c.ps.files)) \ {c.i} :
                       \A k \in 1..Len(c.ps.files[f].recs) :
                           c.ps.files[f].recs[k].g <= c.ps.chunks}}
    \cup {[payload |-> EncMeta("v1") \o EncChunkList(1) \o EncFileList(c.ver, c.fs),
           file |-> c.i, files |-> c.fs] :
            c \in {c \in [ver : {0, 2}, fs : OverCapFiles, i : 1..2] :
                     c.fs[c.i] = OverCapPattern}}

\* C28 as stated: the chunk-part count of the next file is read behind the
\* declared records of a file also when that file's part list was cut short
\* by a failed part or discarded for its count: every other file has the
\* chunk_parts and the file_size of its own records.
C28_OtherFilesUnaffected ==
    \A c \in FailedFileCases :
        (pc = "done" /\ result.at = "files" /\ payload = c.payload) =>
            /\ result = Success("files")
            /\ Len(Files) = Len(c.files)
            /\ \A f \in (1..Len(Files)) \ {c.file} :
                  /\ [k \in 1..Len(Files[f].chunk_parts) |->
                         PartFields(Files[f].chunk_parts[k])]
                        = DecodedRecs(c.files[f].recs, Len(c.files[f].recs))
                  /\ Files[f].file_size
                        = SumSeq([k \in 1..Len(c.files[f].recs) |-> c.files[f].recs[k].size])

\* the string fields of a metadata record, the prerequisite ids and the build
\* id (when there is one) included
MetaStrings(m) ==
    <<m.app_name, m.build_version, m.launch_exe, m.launch_command,
      m.prereq_name, m.prereq_path, m.prereq_args>>
    \o m.prereq_ids \o m.build_id

\* C29 as stated: when a Manifest is serialised, every string field of the
\* metadata record (app name, build version, launch exe, launch command, each
\* prerequisite id, prerequisite name, path and args, build id) is emitted
\* without its trailing NUL characters, and the value in memory keeps them.
C29_MetaStringsTrimmed ==
    last.op = "serialize" =>
        /\ Len(MetaStrings(last.out[1])) = Len(MetaStrings(meta[1]))
        /\ \A i \in 1..Len(MetaStrings(meta[1])) :
              MetaStrings(last.out[1])[i] = trim_null_chars(MetaStrings(meta[1])[i])

\* the position a seek asks for, kept between 0 and the limit
SeekTarget(r, pos) ==
    IF pos.neg
    THEN (IF FitsBelow(pos.mag) /\ LowValue(pos.mag) <= SeekBase(r, pos.whence)
          THEN Min(SeekBase(r, pos.whence) - LowValue(pos.mag), r.limit)
          ELSE 0)
    ELSE IF ~FitsBelow(pos.mag) THEN r.limit
    ELSE IF pos.whence = "Start" THEN Min(LowValue(pos.mag), r.limit)
    ELSE Min(SeekBase(r, pos.whence) + LowValue(pos.mag), r.limit)

\* the invariant of a section sub-reader and the contract of its read
ReaderInBounds ==
    rd.kind = "limited" =>
        /\ 0 <= rd.position
        /\ rd.position <= rd.limit
        /\ rd.limit <= Len(rd.data)

ReadContract ==
    (last.op = "read" /\ last.before.kind = "limited") =>
        /\ last.ok
        /\ last.out[1] = Available(last.before, last.n)
        /\ Len(last.out[1]) = Min(last.n, last.before.limit - last.before.position)
        /\ rd = [last.before EXCEPT !.position = @ + Len(last.out[1])]

\* C30 as stated: for a section sub-reader, after any reads and seeks with
\* any arguments, 0 <= position <= limit <= length of the data; a read of n
\* bytes returns the min(n, limit - position) bytes at the position and
\* advances by as many; a seek never fails and leaves the position asked
\* for, clamped to the limit.
C30_LimitedReaderContract ==
    /\ ReaderInBounds
    /\ ReadContract
    /\ last.op = "seek" =>
          /\ last.ok
          /\ rd = [last.before EXCEPT !.position = SeekTarget(last.before, last.arg)]
          /\ last.out[1] = rd.position

====
